---- MODULE Spec2Model ----
(***************************************************************************)
(* Model of the image-gin plugin's local-image-to-CDN conversion:          *)
(*   - BatchDirectoryConvertLocalToRemote (src/src/modals/CurrentFileModal.ts) *)
(*   - ConvertLocalImagesForCurrentFile                                     *)
(*     (src/src/modals/ConvertLocalImagesForCurrentFile.ts)                 *)
(* and of what they rest on:                                               *)
(*   - ImageKitService.uploadFile (src/src/services/imagekitService.ts)     *)
(*   - CurrentFileModal, the image generation modal                         *)
(*     (src/src/modals/CurrentFileModal.ts), with                           *)
(*     RecraftImageService (src/src/services/recraftImageService.ts)        *)
(*   - FreepikModal (src/main.ts) with ImageCacheService                    *)
(*     (src/src/services/imageCacheService.ts)                              *)
(*   - the settings tab (src/src/settings/settings.ts)                      *)
(* Text is a sequence of one-symbol strings.  A symbol is one character,    *)
(* except for a few lexemes that the code never looks into ("http://",      *)
(* ".md", frontmatter keys, the CDN host), which are kept as one symbol.    *)
(* Every `await` of the source is a step boundary: the code between two     *)
(* awaits is one action.                                                    *)
(***************************************************************************)
EXTENDS Integers, Sequences, FiniteSets, TLC

VARIABLES
    \* ---- host application (vault, disk) and plugin settings
    docs,            \* markdown files of the vault: path -> text
    files,           \* image files that exist (vault paths)
    settings,        \* plugin.settings.imageKit (the fields the flows read)
    envBudget,       \* external events still allowed (bound)
    ui,              \* which modal is on screen: none / batch / current / closed
    uiBudget,        \* user events still allowed (bound)
    \* ---- BatchDirectoryConvertLocalToRemote fields
    currentDirectory,
    localImages,
    isScanning,
    isConverting,
    selectAllCheckbox,   \* [checked, indeterminate] of the header checkbox
    rows,                \* the rendered per-image checkboxes (DOM), in order
    \* ---- the suspended handleSearch calls (one started by the button, one by handleConvert)
    scanPc, scanFiles, scanIdx,
    \* ---- the suspended handleConvert call
    convPc, selectedImages, convI, successCount, errorCount, convUrl, convContent,
    \* ---- observable effects of the running conversion (requests, writes, notices)
    inflight, uploadLog, writeLog, outcome, notices, closedAt, runs,
    \* ---- ConvertLocalImagesForCurrentFile: the modal's fields, the locals of its
    \* suspended handleConvert, and the observable effects of that run
    cfModal, cfTask, cfObs,
    \* ---- the rewrite of a text taken alone: its inputs and its results
    rw,
    \* ---- CurrentFileModal (image generation): its fields, the locals of its
    \* suspended handleGenerate and the requests it has made
    gen,
    \* ---- the classification of a path taken alone, and one call of uploadFile
    \* taken alone: their inputs and their results
    cls, up,
    \* ---- FreepikModal: its fields, its suspended performSearch calls, what its
    \* results container shows, and its ImageCacheService with the calls of
    \* cacheImage under way
    fp

hostVars  == <<docs, files, settings, envBudget, ui, uiBudget>>
batchVars == <<currentDirectory, localImages, isScanning, isConverting, selectAllCheckbox, rows>>
scanVars  == <<scanPc, scanFiles, scanIdx>>
convVars  == <<convPc, selectedImages, convI, successCount, errorCount, convUrl, convContent>>
obsVars   == <<inflight, uploadLog, writeLog, outcome, notices, closedAt, runs>>
cfVars    == <<cfModal, cfTask, cfObs>>
pureVars  == <<rw, cls, up, fp>>
vars      == <<hostVars, batchVars, scanVars, convVars, obsVars, cfVars, gen, pureVars>>

----------------------------------------------------------------------------
(* Bounds of the exploration *)
MaxUiEvents == 3      \* user events (clicks, toggles) per behaviour
MaxEnvEvents == 1     \* external deletions of a note per behaviour
MaxRuns == 2          \* conversions started per modal

----------------------------------------------------------------------------
(* Strings *)

StartsWith(s, p) == Len(p) <= Len(s) /\ SubSeq(s, 1, Len(p)) = p

MatchAt(s, i, m) == i >= 1 /\ i + Len(m) - 1 <= Len(s) /\ SubSeq(s, i, i + Len(m) - 1) = m

\* String.prototype.indexOf(m, from), 1-based; 0 when m does not occur
RECURSIVE IndexFrom(_, _, _)
IndexFrom(s, m, i) ==
    IF i + Len(m) - 1 > Len(s) THEN 0
    ELSE IF MatchAt(s, i, m) THEN i
    ELSE IndexFrom(s, m, i + 1)

Includes(s, m) == IndexFrom(s, m, 1) > 0

\* number of non-overlapping occurrences of m in s, scanning from the left
RECURSIVE CountFrom(_, _, _)
CountFrom(s, m, i) ==
    LET p == IndexFrom(s, m, i)
    IN IF p = 0 \/ Len(m) = 0 THEN 0 ELSE 1 + CountFrom(s, m, p + Len(m))

Count(s, m) == CountFrom(s, m, 1)

\* ECMAScript GetSubstitution for a pattern without capture groups: $$ -> $,
\* $& -> the match, $ and a backtick -> the text before it, $ and an apostrophe -> the
\* text after it (the two quote characters are the symbols "backtick" and "apostrophe")
RECURSIVE GetSubstitution(_, _, _, _)
GetSubstitution(matched, str, pos, r) ==
    IF r = <<>> THEN <<>>
    ELSE IF Head(r) = "$" /\ Len(r) >= 2 /\ r[2] \in {"$", "&", "backtick", "apostrophe"}
    THEN LET rest == GetSubstitution(matched, str, pos, SubSeq(r, 3, Len(r)))
         IN CASE r[2] = "$" -> <<"$">> \o rest
              [] r[2] = "&" -> matched \o rest
              [] r[2] = "backtick" -> SubSeq(str, 1, pos - 1) \o rest
              [] OTHER      -> SubSeq(str, pos + Len(matched), Len(str)) \o rest
    ELSE <<Head(r)>> \o GetSubstitution(matched, str, pos, Tail(r))

\* (variant: every occurrence is replaced, as String.prototype.replaceAll does)
RECURSIVE StringReplace_EveryOccurrence(_, _, _)
StringReplace_EveryOccurrence(str, m, r) ==
    LET p == IndexFrom(str, m, 1)
    IN IF p = 0 \/ m = <<>> THEN str
       ELSE SubSeq(str, 1, p - 1) \o GetSubstitution(m, str, p, r)
            \o StringReplace_EveryOccurrence(SubSeq(str, p + Len(m), Len(str)), m, r)

\* String.prototype.replace(m: string, r: string): the first occurrence only
StringReplace(str, m, r) ==
    LET p == IndexFrom(str, m, 1)
    IN IF p = 0 THEN str
       ELSE SubSeq(str, 1, p - 1) \o GetSubstitution(m, str, p, r)
            \o SubSeq(str, p + Len(m), Len(str))

\* String.prototype.split('\n')
RECURSIVE SplitLines(_)
SplitLines(s) ==
    LET p == IndexFrom(s, <<"\n">>, 1)
    IN IF p = 0 THEN <<s>>
       ELSE <<SubSeq(s, 1, p - 1)>> \o SplitLines(SubSeq(s, p + 1, Len(s)))

\* path.basename / path.dirname (posix)
RECURSIVE LastSlash(_, _)
LastSlash(s, i) == IF i = 0 THEN 0 ELSE IF s[i] = "/" THEN i ELSE LastSlash(s, i - 1)

RECURSIVE StripTrailingSlashes(_)
StripTrailingSlashes(s) ==
    IF Len(s) > 1 /\ s[Len(s)] = "/" THEN StripTrailingSlashes(SubSeq(s, 1, Len(s) - 1)) ELSE s

basename(p) ==
    LET q == StripTrailingSlashes(p)
    IN SubSeq(q, LastSlash(q, Len(q)) + 1, Len(q))

dirname(p) ==
    LET q == StripTrailingSlashes(p)
        k == LastSlash(q, Len(q))
    IN IF k = 0 THEN <<".">> ELSE IF k = 1 THEN <<"/">> ELSE SubSeq(q, 1, k - 1)

\* String.prototype.endsWith
EndsWith(p, q) == Len(q) <= Len(p) /\ SubSeq(p, Len(p) - Len(q) + 1, Len(p)) = q

----------------------------------------------------------------------------
(* The vault the exploration starts from *)

Embed(p) == <<"!", "[", "[">> \o p \o <<"]", "]">>

ImgA  == <<"a", ".", "p", "n", "g">>
ImgB  == <<"i", "/", "b", ".", "p", "n", "g">>
ImgD  == <<"$", "$", ".", "p", "n", "g">>
ImgR  == <<"http://", "x", "/", "c", ".", "p", "n", "g">>

Note1 == <<"n", "/", "a", ".md">>
Note2 == <<"m", "/", "b", ".md">>
MdOrder == <<Note1, Note2>>          \* the order of vault.getMarkdownFiles()

Dashes == <<"-", "-", "-">>
ImgN  == <<"n", "/", "c", ".", "p", "n", "g">>
ImgDash == <<"a", "-", "p", "n", "g">>                \* no extension: not an image path
ImgRel == <<".", "/", "c", ".", "p", "n", "g">>     \* ImgN as seen from Note1

\* a list of one image path, as a frontmatter value
ImgList == <<"[">> \o ImgRel \o <<"]">>

\* a note with a frontmatter block: two image keys with a path, one image key with
\* a list, one other key
NoteWithHeader ==
    Dashes \o <<"\n", "title", ":", " ", "t", "\n", "banner_image", ":", " ">> \o ImgRel
    \o <<"\n", "og_image", ":", " ">> \o ImgB
    \o <<"\n", "thumbnail", ":", " ">> \o ImgList \o <<"\n">> \o Dashes
    \o <<"\n">> \o Embed(ImgA) \o <<" ">> \o Embed(ImgDash)

Vaults == {
    \* the same embed on two lines of one note, and once more in another note
    (Note1 :> (<<"x", " ">> \o Embed(ImgA) \o <<"\n">> \o Embed(ImgA))
       @@ Note2 :> Embed(ImgA)),
    \* two different embeds on one line, a remote embed, a name with `$$`
    (Note1 :> (Embed(ImgA) \o <<" ">> \o Embed(ImgB))
       @@ Note2 :> (Embed(ImgR) \o <<"\n">> \o Embed(ImgD))),
    \* a note with frontmatter image keys and embeds in its body
    (Note1 :> NoteWithHeader @@ Note2 :> <<"y">>)
}

FileSets == { {ImgA, ImgB, ImgD, ImgN}, {ImgA, ImgD, ImgN} }

DefaultEndpoint == <<"https://", "ik.imagekit.io", "/", "id">>

Dirs == { <<>>, <<"n">> }

\* the URL the CDN gives the n-th file it stores for this run (it makes names unique)
UrlIds == <<"1", "2", "3", "4", "5", "6">>
UrlOf(n) == <<"https://", "cdn", "/", UrlIds[n]>>

----------------------------------------------------------------------------
(* BatchDirectoryConvertLocalToRemote: scanning *)

isRemoteUrl(path) ==
    \/ StartsWith(path, <<"http://">>)
    \/ StartsWith(path, <<"https://">>)
    \/ StartsWith(path, <<"/", "/">>)

\* index of the first "]" of s at or after i, Len(s) + 1 when there is none
RECURSIVE FirstClose(_, _)
FirstClose(s, i) ==
    IF i > Len(s) THEN Len(s) + 1 ELSE IF s[i] = "]" THEN i ELSE FirstClose(s, i + 1)

\* /!\[\[([^\]]+)\]\]/ anchored at i: the index of the last symbol matched, 0 if no match
EmbedEndAt(s, i) ==
    IF ~MatchAt(s, i, <<"!", "[", "[">>) THEN 0
    ELSE LET j == FirstClose(s, i + 3)
         IN IF j > i + 3 /\ MatchAt(s, j, <<"]", "]">>) THEN j + 1 ELSE 0

\* the successive exec() results of the global regex on s, from index i
RECURSIVE EmbedMatches(_, _)
EmbedMatches(s, i) ==
    IF i > Len(s) THEN <<>>
    ELSE LET e == EmbedEndAt(s, i)
         IN IF e = 0 THEN EmbedMatches(s, i + 1)
            ELSE <<[full |-> SubSeq(s, i, e), path |-> SubSeq(s, i + 3, e - 2)]>>
                 \o EmbedMatches(s, e + 1)

RECURSIVE RefsOfMatches(_, _, _)
RefsOfMatches(ms, filePath, lineNumber) ==
    IF ms = <<>> THEN <<>>
    ELSE (IF isRemoteUrl(Head(ms).path) THEN <<>>
          ELSE << [filePath   |-> filePath,
                   fileName   |-> basename(filePath),
                   imagePath  |-> Head(ms).path,
                   imageName  |-> basename(Head(ms).path),
                   fullMatch  |-> Head(ms).full,
                   lineNumber |-> lineNumber,
                   selected   |-> TRUE] >>)
         \o RefsOfMatches(Tail(ms), filePath, lineNumber)

RECURSIVE RefsOfLines(_, _, _)
RefsOfLines(lines, filePath, k) ==
    IF k > Len(lines) THEN <<>>
    ELSE RefsOfMatches(EmbedMatches(lines[k], 1), filePath, k)
         \o RefsOfLines(lines, filePath, k + 1)

\* a scan that lists a path once per note
RECURSIVE DropListed(_, _)
DropListed(refs, seen) ==
    IF refs = <<>> THEN <<>>
    ELSE IF Head(refs).imagePath \in seen THEN DropListed(Tail(refs), seen)
    ELSE <<Head(refs)>> \o DropListed(Tail(refs), seen \cup {Head(refs).imagePath})

extractLocalImageReferences_Deduplicated(content, filePath) ==
    DropListed(RefsOfLines(SplitLines(content), filePath, 1), {})

extractLocalImageReferences(content, filePath) ==
    RefsOfLines(SplitLines(content), filePath, 1)

\* vault.getMarkdownFiles() filtered by the directory prefix
RECURSIVE FilterFiles(_, _)
FilterFiles(order, dir) ==
    IF order = <<>> THEN <<>>
    ELSE (IF Head(order) \in DOMAIN docs /\ (dir = <<>> \/ StartsWith(Head(order), dir))
          THEN <<Head(order)>> ELSE <<>>)
         \o FilterFiles(Tail(order), dir)

TargetFiles == FilterFiles(MdOrder, currentDirectory)

AllChecked(n) == [k \in 1..n |-> TRUE]

\* handleSearch from its entry to its first await (or to its end when it returns at
\* once): t is the caller, "ui" for the button and "conv" for handleConvert
SearchBegin(t) ==
    IF isScanning
    THEN UNCHANGED <<localImages, isScanning, rows, scanVars>>
    ELSE IF TargetFiles = <<>>
    THEN /\ localImages' = <<>>
         /\ rows' = <<>>
         /\ isScanning' = FALSE
         /\ UNCHANGED scanVars
    ELSE /\ localImages' = <<>>
         /\ isScanning' = TRUE
         /\ scanPc' = [scanPc EXCEPT ![t] = "read"]
         /\ scanFiles' = [scanFiles EXCEPT ![t] = TargetFiles]
         /\ scanIdx' = [scanIdx EXCEPT ![t] = 1]
         /\ UNCHANGED rows

SearchSuspends == ~isScanning /\ TargetFiles # <<>>

\* the Search button
handleSearch ==
    /\ ui = "batch" /\ uiBudget > 0
    /\ uiBudget' = uiBudget - 1
    /\ SearchBegin("ui")
    /\ UNCHANGED <<docs, files, settings, envBudget, ui>>
    /\ UNCHANGED <<currentDirectory, isConverting, selectAllCheckbox>>
    /\ UNCHANGED <<convVars, obsVars>>
    /\ UNCHANGED <<cfVars, gen, pureVars>>

\* one vault.read of scanDirectoryForLocalImages resolves (or rejects: the file is
\* gone); after the last one handleSearch runs to its end, and so does the
\* handleConvert that awaited it
scanDirectoryForLocalImages(t) ==
    /\ scanPc[t] = "read"
    /\ LET f     == scanFiles[t][scanIdx[t]]
           found == IF f \in DOMAIN docs
                    THEN extractLocalImageReferences(docs[f], f) ELSE <<>>
           imgs  == localImages \o found
       IN /\ localImages' = imgs
          /\ IF scanIdx[t] < Len(scanFiles[t])
             THEN /\ scanIdx' = [scanIdx EXCEPT ![t] = @ + 1]
                  /\ UNCHANGED <<scanPc, scanFiles, rows, isScanning, isConverting, convPc>>
             ELSE /\ scanPc' = [scanPc EXCEPT ![t] = "idle"]
                  /\ rows' = AllChecked(Len(imgs))
                  /\ isScanning' = FALSE
                  /\ isConverting' = IF t = "conv" THEN FALSE ELSE isConverting
                  /\ convPc' = IF t = "conv" THEN "idle" ELSE convPc
                  /\ UNCHANGED <<scanFiles, scanIdx>>
    /\ UNCHANGED <<hostVars, currentDirectory, selectAllCheckbox>>
    /\ UNCHANGED <<selectedImages, convI, successCount, errorCount, convUrl, convContent>>
    /\ UNCHANGED obsVars
    /\ UNCHANGED <<cfVars, gen, pureVars>>

----------------------------------------------------------------------------
(* BatchDirectoryConvertLocalToRemote: selection *)

RECURSIVE FilterSelected(_)
FilterSelected(imgs) ==
    IF imgs = <<>> THEN <<>>
    ELSE (IF Head(imgs).selected THEN <<Head(imgs)>> ELSE <<>>) \o FilterSelected(Tail(imgs))

updateSelectAllCheckbox(imgs) ==
    LET selectedCount == Len(FilterSelected(imgs))
        totalCount    == Len(imgs)
    IN IF selectedCount = 0 THEN [checked |-> FALSE, indeterminate |-> FALSE]
       ELSE IF selectedCount = totalCount THEN [checked |-> TRUE, indeterminate |-> FALSE]
       ELSE [checked |-> FALSE, indeterminate |-> TRUE]

\* the user (un)ticks the checkbox of row k
ToggleImage(k) ==
    /\ ui = "batch" /\ uiBudget > 0
    /\ k \in 1..Len(rows)
    /\ uiBudget' = uiBudget - 1
    /\ rows' = [rows EXCEPT ![k] = ~@]
    /\ IF k <= Len(localImages)
       THEN /\ localImages' = [localImages EXCEPT ![k].selected = ~rows[k]]
            /\ selectAllCheckbox' = updateSelectAllCheckbox(localImages')
       ELSE UNCHANGED <<localImages, selectAllCheckbox>>
    /\ UNCHANGED <<docs, files, settings, envBudget, ui>>
    /\ UNCHANGED <<currentDirectory, isScanning, isConverting>>
    /\ UNCHANGED <<scanVars, convVars, obsVars>>
    /\ UNCHANGED <<cfVars, gen, pureVars>>

\* the user clicks the Select All checkbox of the results header
SelectAllChange ==
    /\ ui = "batch" /\ uiBudget > 0
    /\ Len(rows) > 0
    /\ uiBudget' = uiBudget - 1
    /\ LET isChecked == ~selectAllCheckbox.checked
       IN /\ selectAllCheckbox' = [checked |-> isChecked, indeterminate |-> FALSE]
          /\ localImages' = [k \in 1..Len(localImages) |->
                                [localImages[k] EXCEPT !.selected = isChecked]]
          /\ rows' = [k \in 1..Len(rows) |-> isChecked]
    /\ UNCHANGED <<docs, files, settings, envBudget, ui>>
    /\ UNCHANGED <<currentDirectory, isScanning, isConverting>>
    /\ UNCHANGED <<scanVars, convVars, obsVars>>
    /\ UNCHANGED <<cfVars, gen, pureVars>>

\* the user edits the Directory Path field
DirectoryChange(value) ==
    /\ ui = "batch" /\ uiBudget > 0
    /\ value # currentDirectory
    /\ uiBudget' = uiBudget - 1
    /\ currentDirectory' = value
    /\ UNCHANGED <<docs, files, settings, envBudget, ui>>
    /\ UNCHANGED <<localImages, isScanning, isConverting, selectAllCheckbox, rows>>
    /\ UNCHANGED <<scanVars, convVars, obsVars>>
    /\ UNCHANGED <<cfVars, gen, pureVars>>

----------------------------------------------------------------------------
(* BatchDirectoryConvertLocalToRemote: conversion *)

Item == selectedImages[convI]

\* the loop of handleConvert from item i up to the next await: an item whose note or
\* image file is not in the vault throws before any await and is counted at once
\* (oc records, per item, how it ended and the text of its note when its turn began
\* and when it ended; txt is the vault as the loop sees it)
NoFile == <<"ENOENT">>
TextOf(txt, path) == IF path \in DOMAIN txt THEN txt[path] ELSE NoFile
Pending == [st |-> "pending", before |-> <<>>, after |-> <<>>]

RECURSIVE LoopFrom(_, _, _, _, _)
LoopFrom(sel, i, ec, oc, txt) ==
    IF i > Len(sel) THEN [i |-> i, ec |-> ec, oc |-> oc]
    ELSE LET t == TextOf(txt, sel[i].filePath)
         IN IF sel[i].filePath \notin DOMAIN txt
            THEN LoopFrom(sel, i + 1, ec + 1,
                          [oc EXCEPT ![i] = [st |-> "noDocument", before |-> t, after |-> t]],
                          txt)
            ELSE IF sel[i].imagePath \notin files
            THEN LoopFrom(sel, i + 1, ec + 1,
                          [oc EXCEPT ![i] = [st |-> "noImageFile", before |-> t, after |-> t]],
                          txt)
            ELSE [i |-> i, ec |-> ec,
                  oc |-> [oc EXCEPT ![i] = [st |-> "started", before |-> t, after |-> <<>>]]]

Summary(sc, ec) == [kind |-> "summary", successful |-> sc, failed |-> ec]

\* handleConvert resumes with the loop at item i, sc successes and ec failures so far:
\* it runs to the next await, or through the summary, the refresh and the finally block
\* (conv is the value isConverting has at that point)
Resume(sel, i, sc, ec, oc, conv, txt) ==
    LET r == LoopFrom(sel, i, ec, oc, txt)
    IN /\ convI' = r.i
       /\ successCount' = sc
       /\ errorCount' = r.ec
       /\ outcome' = r.oc
       /\ IF r.i <= Len(sel)
          THEN /\ convPc' = "readBinary"
               /\ isConverting' = conv
               /\ UNCHANGED <<notices, localImages, isScanning, rows, scanVars>>
          ELSE /\ notices' = Append(notices, Summary(sc, r.ec))
               /\ IF sc > 0
                  THEN /\ SearchBegin("conv")
                       /\ convPc' = IF SearchSuspends THEN "search" ELSE "idle"
                       /\ isConverting' = IF SearchSuspends THEN conv ELSE FALSE
                  ELSE /\ convPc' = "idle"
                       /\ isConverting' = FALSE
                       /\ UNCHANGED <<localImages, isScanning, rows, scanVars>>

\* (variant: the constructor clears a field of the object it is given)
ImageKitService_Clearing(pluginSettings) == [pluginSettings EXCEPT !.removeLocalFiles = FALSE]

\* new ImageKitService(this.plugin.settings): the service keeps the object it is
\* given, not a copy, and assigns none of its fields; the result is the plugin's
\* settings once the service has been built
ImageKitService(pluginSettings) == pluginSettings

\* the Convert button
handleConvert ==
    /\ ui = "batch" /\ uiBudget > 0
    /\ uiBudget' = uiBudget - 1
    /\ isConverting \/ runs < MaxRuns
    /\ LET sel == FilterSelected(localImages)
       IN IF isConverting
          THEN UNCHANGED <<batchVars, scanVars, convVars, obsVars>>
          ELSE IF sel = <<>>
          THEN /\ notices' = Append(notices, [kind |-> "selectOne"])
               /\ UNCHANGED <<batchVars, scanVars, convVars>>
               /\ UNCHANGED <<inflight, uploadLog, writeLog, outcome, closedAt, runs>>
          ELSE /\ selectedImages' = sel
               /\ runs' = runs + 1
               /\ inflight' = {}
               /\ uploadLog' = <<>>
               /\ writeLog' = <<>>
               /\ closedAt' = 0
               /\ convUrl' = <<>>
               /\ convContent' = <<>>
               /\ Resume(sel, 1, 0, 0, [k \in 1..Len(sel) |-> Pending], TRUE, docs)
               /\ UNCHANGED <<currentDirectory, selectAllCheckbox>>
    /\ settings' = IF isConverting \/ FilterSelected(localImages) = <<>>
                   THEN settings ELSE ImageKitService(settings)
    /\ UNCHANGED <<docs, files, envBudget, ui>>
    /\ UNCHANGED <<cfVars, gen, pureVars>>

\* (variant: the catch block is missing, the first failure ends the loop)
ItemDone_FailureEndsLoop(ok, why, txt) ==
    Resume(selectedImages, IF ok THEN convI + 1 ELSE Len(selectedImages) + 1,
           IF ok THEN successCount + 1 ELSE successCount,
           IF ok THEN errorCount ELSE errorCount + 1,
           [outcome EXCEPT ![convI].st = why, ![convI].after = TextOf(txt, Item.filePath)],
           isConverting, txt)

\* (variant: a failed item is counted as a success)
ItemDone_CountsFailureAsSuccess(ok, why, txt) ==
    Resume(selectedImages, convI + 1, successCount + 1, errorCount,
           [outcome EXCEPT ![convI].st = why, ![convI].after = TextOf(txt, Item.filePath)],
           isConverting, txt)

\* (variant: the loop walks the references that are selected now)
ItemDone_LiveSelection(ok, why, txt) ==
    Resume(FilterSelected(localImages), convI + 1,
           IF ok THEN successCount + 1 ELSE successCount,
           IF ok THEN errorCount ELSE errorCount + 1,
           [outcome EXCEPT ![convI].st = why, ![convI].after = TextOf(txt, Item.filePath)],
           isConverting, txt)

\* the rest of the current item's try block failed or succeeded: count it and go on
\* (txt is the vault after this step)
ItemDone(ok, why, txt) ==
    Resume(selectedImages, convI + 1,
           IF ok THEN successCount + 1 ELSE successCount,
           IF ok THEN errorCount ELSE errorCount + 1,
           [outcome EXCEPT ![convI].st = why, ![convI].after = TextOf(txt, Item.filePath)],
           isConverting, txt)

\* vault.readBinary resolves; uploadFile checks the key and issues the request
\* (variant: the upload is not awaited, the loop goes on while it is in flight)
ReadBinaryDone_UploadNotAwaited ==
    /\ convPc = "readBinary"
    /\ inflight' = inflight \cup {convI}
    /\ uploadLog' = Append(uploadLog, convI)
    /\ ItemDone(TRUE, "ok", docs)
    /\ UNCHANGED <<hostVars, currentDirectory, selectAllCheckbox>>
    /\ UNCHANGED <<selectedImages, convUrl, convContent, writeLog, closedAt, runs>>
    /\ UNCHANGED <<cfVars, gen, pureVars>>

\* vault.readBinary resolves; uploadFile checks the key and issues the request
ReadBinaryDone ==
    /\ convPc = "readBinary"
    /\ IF settings.privateKey
       THEN /\ inflight' = inflight \cup {convI}
            /\ uploadLog' = Append(uploadLog, convI)
            /\ convPc' = "upload"
            /\ UNCHANGED <<convI, successCount, errorCount, outcome, notices>>
            /\ UNCHANGED <<localImages, isScanning, isConverting, rows, scanVars>>
       ELSE /\ ItemDone(FALSE, "configError", docs)
            /\ UNCHANGED <<inflight, uploadLog>>
    /\ UNCHANGED <<hostVars, currentDirectory, selectAllCheckbox>>
    /\ UNCHANGED <<selectedImages, convUrl, convContent, writeLog, closedAt, runs>>
    /\ UNCHANGED <<cfVars, gen, pureVars>>

\* the CDN answers 200 with the URL of the stored file
UploadOk ==
    /\ convPc = "upload"
    /\ inflight' = inflight \ {convI}
    /\ convUrl' = UrlOf(Len(uploadLog))
    /\ convPc' = "read"
    /\ UNCHANGED <<hostVars, batchVars, scanVars>>
    /\ UNCHANGED <<selectedImages, convI, successCount, errorCount, convContent>>
    /\ UNCHANGED <<uploadLog, writeLog, outcome, notices, closedAt, runs>>
    /\ UNCHANGED <<cfVars, gen, pureVars>>

\* the CDN answers with another status, or the request fails: uploadFile throws
UploadFail ==
    /\ convPc = "upload"
    /\ inflight' = inflight \ {convI}
    /\ ItemDone(FALSE, "uploadError", docs)
    /\ UNCHANGED <<hostVars, currentDirectory, selectAllCheckbox>>
    /\ UNCHANGED <<selectedImages, convUrl, convContent, uploadLog, writeLog, closedAt, runs>>
    /\ UNCHANGED <<cfVars, gen, pureVars>>

Replacement(ref, url) ==
    <<"!", "[">> \o ref.imageName \o <<"]", "(">> \o url \o <<")">>

\* (variant: the text is the one the run's first rewrite of that note started from)
NoteText_ReadOncePerNote(path) ==
    LET earlier == {k \in 1..Len(writeLog) : selectedImages[writeLog[k].item].filePath = path}
    IN IF earlier = {} THEN docs[path]
       ELSE writeLog[CHOOSE k \in earlier : \A h \in earlier : k <= h].read

\* await this.app.vault.read(docFile): the text the note has now
NoteText(path) == docs[path]

\* content.replace(imageRef.fullMatch, `![${imageRef.imageName}](${uploadResult.url})`)
RewriteFirst(content, imageRef, url) ==
    StringReplace(content, imageRef.fullMatch, Replacement(imageRef, url))

\* vault.read of the note resolves: the rewrite is computed and vault.modify is called
ReadDone ==
    /\ convPc = "read"
    /\ IF Item.filePath \in DOMAIN docs
       THEN /\ LET content == NoteText(Item.filePath)
               IN convContent' =
                      [read   |-> content,
                       write  |-> RewriteFirst(content, Item, convUrl)]
            /\ convPc' = "modify"
            /\ UNCHANGED <<convI, successCount, errorCount, outcome, notices>>
            /\ UNCHANGED <<localImages, isScanning, isConverting, rows, scanVars>>
       ELSE /\ ItemDone(FALSE, "readError", docs)
            /\ UNCHANGED convContent
    /\ UNCHANGED <<hostVars, currentDirectory, selectAllCheckbox>>
    /\ UNCHANGED <<selectedImages, convUrl, inflight, uploadLog, writeLog, closedAt, runs>>
    /\ UNCHANGED <<cfVars, gen, pureVars>>

\* vault.modify resolves: the note holds the new text
ModifyOk ==
    /\ convPc = "modify"
    /\ Item.filePath \in DOMAIN docs
    /\ docs' = [docs EXCEPT ![Item.filePath] = convContent.write]
    /\ writeLog' = Append(writeLog, [item |-> convI, url |-> convUrl,
                                     read |-> convContent.read,
                                     before |-> docs[Item.filePath]])
    /\ IF settings.removeLocalFiles
       THEN /\ convPc' = "delete"
            /\ UNCHANGED <<convI, successCount, errorCount, outcome, notices>>
            /\ UNCHANGED <<localImages, isScanning, isConverting, rows, scanVars>>
       ELSE ItemDone(TRUE, "ok", [docs EXCEPT ![Item.filePath] = convContent.write])
    /\ UNCHANGED <<files, settings, envBudget, ui, uiBudget>>
    /\ UNCHANGED <<currentDirectory, selectAllCheckbox>>
    /\ UNCHANGED <<selectedImages, convUrl, convContent, inflight, uploadLog, closedAt, runs>>
    /\ UNCHANGED <<cfVars, gen, pureVars>>

\* vault.modify rejects (the note is gone, the disk refuses the write)
ModifyFail ==
    /\ convPc = "modify"
    /\ ItemDone(FALSE, "writeError", docs)
    /\ UNCHANGED <<hostVars, currentDirectory, selectAllCheckbox>>
    /\ UNCHANGED <<selectedImages, convUrl, convContent, inflight, uploadLog, writeLog,
                   closedAt, runs>>
    /\ UNCHANGED <<cfVars, gen, pureVars>>

\* vault.delete of the local image resolves
DeleteOk ==
    /\ convPc = "delete"
    /\ files' = files \ {Item.imagePath}
    /\ ItemDone(TRUE, "ok", docs)
    /\ UNCHANGED <<docs, settings, envBudget, ui, uiBudget>>
    /\ UNCHANGED <<currentDirectory, selectAllCheckbox>>
    /\ UNCHANGED <<selectedImages, convUrl, convContent, inflight, uploadLog, writeLog,
                   closedAt, runs>>
    /\ UNCHANGED <<cfVars, gen, pureVars>>

\* vault.delete rejects: the catch block only warns
DeleteFail ==
    /\ convPc = "delete"
    /\ ItemDone(TRUE, "ok", docs)
    /\ UNCHANGED <<hostVars, currentDirectory, selectAllCheckbox>>
    /\ UNCHANGED <<selectedImages, convUrl, convContent, inflight, uploadLog, writeLog,
                   closedAt, runs>>
    /\ UNCHANGED <<cfVars, gen, pureVars>>

----------------------------------------------------------------------------
(* ConvertLocalImagesForCurrentFile: analysis of the active note *)

IMAGE_PROPERTIES ==
    << <<"banner_image">>, <<"portrait_image">>, <<"square_image">>, <<"og_image">>,
       <<"featured_image">>, <<"thumbnail">>, <<"hero_image">>, <<"cover_image">> >>

currentFile == Note1

ImageExtensions ==
    { <<".", "p", "n", "g">>, <<".", "j", "p", "g">>, <<".", "j", "p", "e", "g">>,
      <<".", "w", "e", "b", "p">>, <<".", "g", "i", "f">>, <<".", "s", "v", "g">> }

isImageKitUrl_EndpointOnly(url) ==
    IF url = <<>> THEN FALSE
    ELSE Includes(url, settings.urlEndpoint)

isImageKitUrl(url) ==
    IF url = <<>> THEN FALSE
    ELSE Includes(url, <<"ik.imagekit.io">>) \/ Includes(url, settings.urlEndpoint)

isLocalImagePath(path) ==
    IF isImageKitUrl(path) THEN FALSE
    ELSE /\ ~StartsWith(path, <<"http://">>)
         /\ ~StartsWith(path, <<"https://">>)
         /\ \E ext \in ImageExtensions : Includes(path, ext)

\* content.replace(/^---[\s\S]*?---/g, ''): the text without its leading block
StripFrontmatter(content) ==
    IF ~StartsWith(content, Dashes) THEN content
    ELSE LET q == IndexFrom(content, Dashes, 4)
         IN IF q = 0 THEN content ELSE SubSeq(content, q + 3, Len(content))

\* the frontmatter codec (utils/yamlFrontmatter): a block of `key: value` lines
\* between two lines of three hyphens <-> an ordered list of [key, value]
RECURSIVE TrimLeft(_)
TrimLeft(v) == IF v # <<>> /\ Head(v) = " " THEN TrimLeft(Tail(v)) ELSE v

RECURSIVE ParseLines(_)
ParseLines(lines) ==
    IF lines = <<>> THEN <<>>
    ELSE LET l == Head(lines)
             c == IndexFrom(l, <<":">>, 1)
         IN (IF c <= 1 THEN <<>>
             ELSE << [key |-> SubSeq(l, 1, c - 1), value |-> TrimLeft(SubSeq(l, c + 1, Len(l)))] >>)
            \o ParseLines(Tail(lines))

extractFrontmatter(content) ==
    IF ~StartsWith(content, Dashes \o <<"\n">>) THEN <<>>
    ELSE LET close == IndexFrom(content, <<"\n">> \o Dashes, 4)
         IN IF close = 0 THEN <<>>
            ELSE ParseLines(SplitLines(SubSeq(content, 5, close - 1)))

RECURSIVE formatFrontmatter(_)
formatFrontmatter(fm) ==
    IF fm = <<>> THEN <<>>
    ELSE Head(fm).key \o <<":", " ">> \o Head(fm).value \o <<"\n">>
         \o formatFrontmatter(Tail(fm))

\* frontmatter[key], <<>> when the key is absent
FmGet(fm, key) ==
    IF \E k \in 1..Len(fm) : fm[k].key = key
    THEN fm[CHOOSE k \in 1..Len(fm) : fm[k].key = key].value
    ELSE <<>>

\* (variant: the assignment is missing)
FmSet_NotAssigned(fm, key, value) == fm

\* frontmatter[key] = value
FmSet(fm, key, value) ==
    IF \E k \in 1..Len(fm) : fm[k].key = key
    THEN [k \in 1..Len(fm) |-> IF fm[k].key = key THEN [key |-> key, value |-> value] ELSE fm[k]]
    ELSE Append(fm, [key |-> key, value |-> value])

\* typeof value === 'string': the codec hands a value written as a list back as
\* an array
IsString(value) == ~(value # <<>> /\ Head(value) = "[")

\* (variant: every key of the frontmatter is looked at)
RECURSIVE AnalyzeProperties_EveryKey(_, _)
AnalyzeProperties_EveryKey(fm, keys) ==
    IF fm = <<>> THEN <<>>
    ELSE << [key |-> Head(fm).key, value |-> Head(fm).value,
             isLocalFile |-> isLocalImagePath(Head(fm).value)] >>
         \o AnalyzeProperties_EveryKey(Tail(fm), keys)

RECURSIVE AnalyzeProperties(_, _)
AnalyzeProperties(fm, keys) ==
    IF keys = <<>> THEN <<>>
    ELSE (IF FmGet(fm, Head(keys)) # <<>> /\ IsString(FmGet(fm, Head(keys)))
          THEN << [key |-> Head(keys), value |-> FmGet(fm, Head(keys)),
                   isLocalFile |-> isLocalImagePath(FmGet(fm, Head(keys)))] >>
          ELSE <<>>)
         \o AnalyzeProperties(fm, Tail(keys))

RECURSIVE AnalyzeMarkdown(_)
AnalyzeMarkdown(ms) ==
    IF ms = <<>> THEN <<>>
    ELSE (IF isLocalImagePath(Head(ms).path)
          THEN << [path |-> Head(ms).path, match |-> Head(ms).full] >> ELSE <<>>)
         \o AnalyzeMarkdown(Tail(ms))

NoTask ==
    [pc |-> "idle", phase |-> "fm", pos |-> 0, cur |-> <<>>, frontmatter |-> <<>>,
     markdownContent |-> <<>>, successCount |-> 0, errorCount |-> 0, newContent |-> <<>>]

\* what a run of handleConvert did, for the properties below: selected is the
\* selection the run started with, toggled tells whether it changed meanwhile
NoRun == [uploads |-> 0, outcomes |-> <<>>, notices |-> <<>>, written |-> FALSE, read |-> <<>>,
          runs |-> 0, finished |-> 0, selected |-> <<>>, toggled |-> FALSE,
          uploadsBefore |-> 0]

NoModal ==
    [imageProperties |-> <<>>, markdownImagePaths |-> <<>>, isConverting |-> FALSE,
     selectedProperties |-> <<>>, selectedMarkdownImages |-> <<>>,
     propToggles |-> <<>>, mdToggles |-> <<>>, rendered |-> FALSE]

\* the command opens the modal on the active note: constructor, onOpen up to its await
OpenCurrent ==
    /\ ui = "none"
    /\ currentFile \in DOMAIN docs
    /\ ui' = "current"
    /\ cfTask' = [cfTask EXCEPT !.pc = "analyze"]
    /\ UNCHANGED <<docs, files, settings, envBudget, uiBudget>>
    /\ UNCHANGED <<batchVars, scanVars, convVars, obsVars, gen, pureVars, cfModal, cfObs>>

\* vault.read of analyzeCurrentFile resolves (or rejects); the lists are rendered
analyzeCurrentFile ==
    /\ cfTask.pc = "analyze"
    /\ LET present == currentFile \in DOMAIN docs
           content == IF present THEN docs[currentFile] ELSE <<>>
           props   == IF present
                      THEN AnalyzeProperties(extractFrontmatter(content), IMAGE_PROPERTIES)
                      ELSE <<>>
           mds     == IF present
                      THEN AnalyzeMarkdown(EmbedMatches(StripFrontmatter(content), 1))
                      ELSE <<>>
       IN cfModal' = [cfModal EXCEPT !.imageProperties = props,
                                     !.markdownImagePaths = mds,
                                     !.propToggles = [k \in 1..Len(props) |-> FALSE],
                                     !.mdToggles = [k \in 1..Len(mds) |-> FALSE],
                                     !.rendered = (props # <<>> \/ mds # <<>>)]
    /\ cfTask' = [cfTask EXCEPT !.pc = "idle"]
    /\ UNCHANGED <<hostVars, batchVars, scanVars, convVars, obsVars, gen, pureVars, cfObs>>

----------------------------------------------------------------------------
(* ConvertLocalImagesForCurrentFile: selection (two insertion-ordered Sets) *)

IndexIn(seq, x) == IF \E k \in 1..Len(seq) : seq[k] = x
                   THEN CHOOSE k \in 1..Len(seq) : seq[k] = x ELSE 0

SetAdd(seq, x) == IF IndexIn(seq, x) > 0 THEN seq ELSE Append(seq, x)

SetDelete(seq, x) ==
    LET j == IndexIn(seq, x)
    IN IF j = 0 THEN seq ELSE SubSeq(seq, 1, j - 1) \o SubSeq(seq, j + 1, Len(seq))

\* where a running iteration stands after x was deleted from the Set it walks
PosAfterDelete(seq, x, pos) ==
    LET j == IndexIn(seq, x) IN IF j > 0 /\ j <= pos THEN pos - 1 ELSE pos

Iterating(phase) == cfTask.pc \in {"upload"} /\ cfTask.phase = phase

\* the toggle of frontmatter property k (disabled for a value that is not local)
ToggleProperty(k) ==
    /\ ui = "current" /\ uiBudget > 0 /\ cfModal.rendered
    /\ k \in 1..Len(cfModal.imageProperties)
    /\ cfModal.imageProperties[k].isLocalFile
    /\ uiBudget' = uiBudget - 1
    /\ LET key   == cfModal.imageProperties[k].key
           value == ~cfModal.propToggles[k]
       IN /\ cfModal' = [cfModal EXCEPT
                 !.propToggles[k] = value,
                 !.selectedProperties = IF value THEN SetAdd(@, key) ELSE SetDelete(@, key)]
          /\ cfTask' = IF ~value /\ Iterating("fm")
                       THEN [cfTask EXCEPT
                                !.pos = PosAfterDelete(cfModal.selectedProperties, key, @)]
                       ELSE cfTask
    /\ cfObs' = [cfObs EXCEPT !.toggled = @ \/ cfModal.isConverting]
    /\ UNCHANGED <<docs, files, settings, envBudget, ui>>
    /\ UNCHANGED <<batchVars, scanVars, convVars, obsVars, gen, pureVars>>

\* the toggle of markdown image k
ToggleMarkdownImage(k) ==
    /\ ui = "current" /\ uiBudget > 0 /\ cfModal.rendered
    /\ k \in 1..Len(cfModal.markdownImagePaths)
    /\ uiBudget' = uiBudget - 1
    /\ LET path  == cfModal.markdownImagePaths[k].path
           value == ~cfModal.mdToggles[k]
       IN /\ cfModal' = [cfModal EXCEPT
                 !.mdToggles[k] = value,
                 !.selectedMarkdownImages = IF value THEN SetAdd(@, path) ELSE SetDelete(@, path)]
          /\ cfTask' = IF ~value /\ Iterating("md")
                       THEN [cfTask EXCEPT
                                !.pos = PosAfterDelete(cfModal.selectedMarkdownImages, path, @)]
                       ELSE cfTask
    /\ cfObs' = [cfObs EXCEPT !.toggled = @ \/ cfModal.isConverting]
    /\ UNCHANGED <<docs, files, settings, envBudget, ui>>
    /\ UNCHANGED <<batchVars, scanVars, convVars, obsVars, gen, pureVars>>

----------------------------------------------------------------------------
(* ConvertLocalImagesForCurrentFile: conversion *)

\* string.replace(/[.*+?^${}()|[\]\\]/g, '\\$&')
RegExpSpecials == {".", "*", "+", "?", "^", "$", "{", "}", "(", ")", "|", "[", "]", "\\"}

\* (variant: the dot is missing from the character class)
RECURSIVE escapeRegExp_DotNotEscaped(_)
escapeRegExp_DotNotEscaped(string) ==
    IF string = <<>> THEN <<>>
    ELSE (IF Head(string) \in RegExpSpecials \ {"."}
          THEN <<"\\", Head(string)>> ELSE <<Head(string)>>)
         \o escapeRegExp_DotNotEscaped(Tail(string))

RECURSIVE escapeRegExp(_)
escapeRegExp(string) ==
    IF string = <<>> THEN <<>>
    ELSE (IF Head(string) \in RegExpSpecials THEN <<"\\", Head(string)>> ELSE <<Head(string)>>)
         \o escapeRegExp(Tail(string))

\* new RegExp(source, 'g') for the sources escapeRegExp can produce: a backslash
\* makes the next symbol a literal, a bare dot matches any symbol but a line
\* terminator, any other symbol matches itself
RECURSIVE ParseRegExp(_)
ParseRegExp(source) ==
    IF source = <<>> THEN <<>>
    ELSE IF Head(source) = "\\" /\ Len(source) >= 2
    THEN <<[any |-> FALSE, ch |-> source[2]]>> \o ParseRegExp(SubSeq(source, 3, Len(source)))
    ELSE <<[any |-> Head(source) = ".", ch |-> Head(source)]>> \o ParseRegExp(Tail(source))

AtomMatches(atom, c) == IF atom.any THEN c # "\n" ELSE c = atom.ch

RegExpMatchAt(str, i, re) ==
    /\ i + Len(re) - 1 <= Len(str)
    /\ \A k \in 1..Len(re) : AtomMatches(re[k], str[i + k - 1])

\* String.prototype.replace(re: RegExp with flag g, r: string): every match, left to right
RECURSIVE RegExpReplaceFrom(_, _, _, _)
RegExpReplaceFrom(str, re, r, i) ==
    IF i > Len(str) THEN <<>>
    ELSE IF re # <<>> /\ RegExpMatchAt(str, i, re)
    THEN GetSubstitution(SubSeq(str, i, i + Len(re) - 1), str, i, r)
         \o RegExpReplaceFrom(str, re, r, i + Len(re))
    ELSE <<str[i]>> \o RegExpReplaceFrom(str, re, r, i + 1)

RegExpReplaceAll(str, source, r) == RegExpReplaceFrom(str, ParseRegExp(source), r, 1)

\* this.markdownImagePaths.find(img => img.path === imagePath).match
MdMatch(imagePath) ==
    cfModal.markdownImagePaths[CHOOSE k \in 1..Len(cfModal.markdownImagePaths) :
        cfModal.markdownImagePaths[k].path = imagePath
        /\ \A h \in 1..(k - 1) : cfModal.markdownImagePaths[h].path # imagePath].match

\* `![](${uploadResult.url})`
CfReplacement(url) == <<"!", "[", "]", "(">> \o url \o <<")">>

\* (variant: the regular expression has no g flag)
RewriteAll_WithoutGlobalFlag(markdownContent, match, url) ==
    LET re == ParseRegExp(escapeRegExp(match))
        hits == {i \in 1..Len(markdownContent) : RegExpMatchAt(markdownContent, i, re)}
    IN IF hits = {} THEN markdownContent
       ELSE LET p == CHOOSE i \in hits : \A h \in hits : i <= h
            IN SubSeq(markdownContent, 1, p - 1)
               \o GetSubstitution(match, markdownContent, p, CfReplacement(url))
               \o SubSeq(markdownContent, p + Len(re), Len(markdownContent))

\* markdownContent.replace(new RegExp(this.escapeRegExp(match), 'g'), `![](${url})`)
RewriteAll(markdownContent, match, url) ==
    RegExpReplaceAll(markdownContent, escapeRegExp(match), CfReplacement(url))

\* path.join(basePath, currentDir, cleanPath) / path.join(basePath, cleanPath),
\* as a path below the vault's base directory
resolveLocalPath(imagePath) ==
    LET cleanPath == TrimLeft(imagePath)
        currentDir == dirname(currentFile)
    IN IF StartsWith(cleanPath, <<"/">>) THEN cleanPath
       ELSE IF StartsWith(cleanPath, <<".", "/">>)
       THEN currentDir \o <<"/">> \o SubSeq(cleanPath, 3, Len(cleanPath))
       ELSE IF StartsWith(cleanPath, <<".", ".", "/">>)
       THEN SubSeq(cleanPath, 4, Len(cleanPath))
       ELSE cleanPath

CfItemNotice(phase, item) == [kind |-> "itemFailed", phase |-> phase, item |-> item]
CfSummary(sc, ec) == [kind |-> "summary", successful |-> sc, failed |-> ec]
CfFailedNotice == [kind |-> "conversionFailed"]

CfSettle(o, phase, item, st, url) ==
    [o EXCEPT !.outcomes = Append(@, [phase |-> phase, item |-> item, st |-> st, url |-> url]),
              !.notices = IF st = "ok" THEN @ ELSE Append(@, CfItemNotice(phase, item))]

NewContent(t) ==
    IF t.frontmatter # <<>>
    THEN Dashes \o <<"\n">> \o formatFrontmatter(t.frontmatter) \o Dashes \o <<"\n", "\n">>
         \o t.markdownContent
    ELSE t.markdownContent

\* handleConvert from the head of an iteration to its next await, or to its end:
\* t holds the locals, o the effects so far, f the image files on disk
RECURSIVE CfRun(_, _, _)
CfRun(t, o, f) ==
    LET sel == IF t.phase = "fm" THEN cfModal.selectedProperties
               ELSE cfModal.selectedMarkdownImages
    IN IF t.pos >= Len(sel)
       THEN IF t.phase = "fm" THEN CfRun([t EXCEPT !.phase = "md", !.pos = 0], o, f)
            ELSE IF t.successCount > 0
            THEN [task |-> [t EXCEPT !.pc = "modify", !.cur = <<>>, !.newContent = NewContent(t)],
                  obs |-> o]
            ELSE [task |-> [t EXCEPT !.pc = "idle", !.cur = <<>>],
                  obs |-> [o EXCEPT !.notices = Append(@, CfSummary(t.successCount, t.errorCount)),
                                    !.finished = @ + 1]]
       ELSE LET item == sel[t.pos + 1]
                t1   == [t EXCEPT !.pos = @ + 1, !.cur = item]
                j    == IF t.phase = "fm"
                        THEN IF \E k \in 1..Len(cfModal.imageProperties) :
                                    cfModal.imageProperties[k].key = item
                             THEN CHOOSE k \in 1..Len(cfModal.imageProperties) :
                                    cfModal.imageProperties[k].key = item
                             ELSE 0
                        ELSE IF \E k \in 1..Len(cfModal.markdownImagePaths) :
                                    cfModal.markdownImagePaths[k].path = item
                             THEN 1 ELSE 0
                skip == j = 0 \/ (t.phase = "fm" /\ ~cfModal.imageProperties[j].isLocalFile)
                localPath == resolveLocalPath(IF t.phase = "fm" /\ j > 0
                                              THEN cfModal.imageProperties[j].value ELSE item)
            IN IF skip THEN CfRun(t1, o, f)
               ELSE IF localPath \notin f
               THEN CfRun([t1 EXCEPT !.errorCount = @ + 1],
                          CfSettle(o, t.phase, item, "noImageFile", <<>>), f)
               ELSE IF ~settings.privateKey
               THEN CfRun([t1 EXCEPT !.errorCount = @ + 1],
                          CfSettle(o, t.phase, item, "configError", <<>>), f)
               ELSE [task |-> [t1 EXCEPT !.pc = "upload"],
                     obs |-> [o EXCEPT !.uploads = @ + 1]]

\* (variant: the test of isConverting is missing)
cfHandleConvert_NotGuarded ==
    /\ ui = "current" /\ uiBudget > 0 /\ cfModal.rendered
    /\ cfModal.selectedProperties # <<>> \/ cfModal.selectedMarkdownImages # <<>>
    /\ cfObs.runs < MaxRuns
    /\ uiBudget' = uiBudget - 1
    /\ cfModal' = [cfModal EXCEPT !.isConverting = TRUE]
    /\ cfTask' = [NoTask EXCEPT !.pc = "readDoc"]
    /\ cfObs' = [NoRun EXCEPT
                   !.runs = cfObs.runs + 1, !.finished = cfObs.finished,
                   !.uploads = cfObs.uploads, !.uploadsBefore = cfObs.uploads,
                   !.selected = cfModal.selectedProperties \o cfModal.selectedMarkdownImages]
    /\ UNCHANGED <<docs, files, settings, envBudget, ui>>
    /\ UNCHANGED <<batchVars, scanVars, convVars, obsVars, gen, pureVars>>

\* the Convert button; it is disabled while nothing is selected
cfHandleConvert ==
    /\ ui = "current" /\ uiBudget > 0 /\ cfModal.rendered
    /\ cfModal.selectedProperties # <<>> \/ cfModal.selectedMarkdownImages # <<>>
    /\ cfModal.isConverting \/ cfObs.runs < MaxRuns
    /\ uiBudget' = uiBudget - 1
    /\ IF cfModal.isConverting
       THEN UNCHANGED cfVars
       ELSE /\ cfModal' = [cfModal EXCEPT !.isConverting = TRUE]
            /\ cfTask' = [NoTask EXCEPT !.pc = "readDoc"]
            /\ cfObs' = [NoRun EXCEPT
                           !.runs = cfObs.runs + 1, !.finished = cfObs.finished,
                           !.uploads = cfObs.uploads, !.uploadsBefore = cfObs.uploads,
                           !.selected = cfModal.selectedProperties \o cfModal.selectedMarkdownImages]
    /\ settings' = IF cfModal.isConverting THEN settings ELSE ImageKitService(settings)
    /\ UNCHANGED <<docs, files, envBudget, ui>>
    /\ UNCHANGED <<batchVars, scanVars, convVars, obsVars, gen, pureVars>>

\* what an action that resumes handleConvert leaves behind
CfResume(r) ==
    /\ cfTask' = r.task
    /\ cfObs' = r.obs
    /\ cfModal' = [cfModal EXCEPT !.isConverting = (r.task.pc # "idle")]

\* `await this.app.vault.read(this.currentFile)` of handleConvert
CfReadDone ==
    /\ cfTask.pc = "readDoc"
    /\ IF currentFile \in DOMAIN docs
       THEN LET content == docs[currentFile]
            IN CfResume(CfRun([cfTask EXCEPT !.frontmatter = extractFrontmatter(content),
                                             !.markdownContent = StripFrontmatter(content)],
                              [cfObs EXCEPT !.read = content], files))
       ELSE CfResume([task |-> [cfTask EXCEPT !.pc = "idle"],
                      obs |-> [cfObs EXCEPT !.notices = Append(@, CfFailedNotice),
                                            !.finished = @ + 1]])
    /\ UNCHANGED <<hostVars, batchVars, scanVars, convVars, obsVars, gen, pureVars>>

\* the upload request of the current item answers 200
CfUploadOk ==
    /\ cfTask.pc = "upload"
    /\ LET url == UrlOf(cfObs.uploads)
           t   == IF cfTask.phase = "fm"
                  THEN [cfTask EXCEPT !.frontmatter = FmSet(@, cfTask.cur, url),
                                      !.successCount = @ + 1]
                  ELSE [cfTask EXCEPT
                          !.markdownContent =
                              RewriteAll(@, MdMatch(cfTask.cur), url),
                          !.successCount = @ + 1]
           localPath == resolveLocalPath(
                          IF cfTask.phase = "fm"
                          THEN FmGet(cfModal.imageProperties, cfTask.cur)
                          ELSE cfTask.cur)
           f   == IF settings.removeLocalFiles THEN files \ {localPath} ELSE files
       IN /\ files' = f
          /\ CfResume(CfRun(t, CfSettle(cfObs, cfTask.phase, cfTask.cur, "ok", url), f))
    /\ UNCHANGED <<docs, settings, envBudget, ui, uiBudget>>
    /\ UNCHANGED <<batchVars, scanVars, convVars, obsVars, gen, pureVars>>

\* the upload request of the current item fails (transport error or status other than 200)
CfUploadFail ==
    /\ cfTask.pc = "upload"
    /\ CfResume(CfRun([cfTask EXCEPT !.errorCount = @ + 1],
                      CfSettle(cfObs, cfTask.phase, cfTask.cur, "uploadError", <<>>), files))
    /\ UNCHANGED <<hostVars, batchVars, scanVars, convVars, obsVars, gen, pureVars>>

\* `await this.app.vault.modify(this.currentFile, newContent)` resolves
CfModifyOk ==
    /\ cfTask.pc = "modify"
    /\ currentFile \in DOMAIN docs
    /\ docs' = [docs EXCEPT ![currentFile] = cfTask.newContent]
    /\ ui' = "closed"
    /\ CfResume([task |-> [cfTask EXCEPT !.pc = "idle"],
                 obs |-> [cfObs EXCEPT
                            !.notices = Append(@, CfSummary(cfTask.successCount, cfTask.errorCount)),
                            !.written = TRUE,
                            !.finished = @ + 1]])
    /\ UNCHANGED <<files, settings, envBudget, uiBudget>>
    /\ UNCHANGED <<batchVars, scanVars, convVars, obsVars, gen, pureVars>>

\* ... rejects: the outer catch reports it
CfModifyFail ==
    /\ cfTask.pc = "modify"
    /\ currentFile \notin DOMAIN docs
    /\ CfResume([task |-> [cfTask EXCEPT !.pc = "idle"],
                 obs |-> [cfObs EXCEPT !.notices = Append(@, CfFailedNotice),
                                       !.finished = @ + 1]])
    /\ UNCHANGED <<hostVars, batchVars, scanVars, convVars, obsVars, gen, pureVars>>

\* the user closes the modal: onClose empties the content element
CfClose ==
    /\ ui = "current" /\ uiBudget > 0
    /\ uiBudget' = uiBudget - 1
    /\ ui' = "closed"
    /\ UNCHANGED <<docs, files, settings, envBudget>>
    /\ UNCHANGED <<batchVars, scanVars, convVars, obsVars, gen, pureVars, cfVars>>

----------------------------------------------------------------------------
(* ImageKitService.uploadFile *)

\* One call of uploadFile.  A text is a sequence of symbols as before; the lines
\* of the multipart header are texts, and a byte is a symbol too: the byte of an
\* ASCII symbol is that symbol, a symbol outside ASCII encodes to several bytes.

CRLF == <<"\r", "\n">>
Quote == "dquote"

\* the settings the service was built with, the arguments of the call, the locals
\* alive across the await, what went out and how the call ended
NoUp ==
    [pc |-> "none",
     enabled |-> FALSE, privateKey |-> <<>>, convertToWebp |-> FALSE, uploadFolder |-> <<>>,
     fileBuffer |-> <<>>, fileName |-> <<>>, folder |-> <<>>, tags |-> <<>>,
     boundary |-> "",
     headerBytes |-> <<>>, footerBytes |-> <<>>, body |-> <<>>,
     requests |-> 0, stored |-> 0,
     status |-> 0, text |-> <<>>, result |-> <<>>, error |-> [kind |-> "none"]]

\* fileName.replace(/\.[^.]+$/, '.webp'): the last dot and what follows it, when
\* something follows it
ReplaceExtension(fileName) ==
    LET dots == {i \in 1..Len(fileName) : fileName[i] = "."}
    IN IF dots = {} THEN fileName
       ELSE LET k == CHOOSE i \in dots : \A j \in dots : j <= i
            IN IF k = Len(fileName) THEN fileName
               ELSE SubSeq(fileName, 1, k - 1) \o <<".", "w", "e", "b", "p">>

finalFileName(u) ==
    IF /\ u.convertToWebp
       /\ ~EndsWith(u.fileName, <<".", "w", "e", "b", "p">>)
       /\ ~EndsWith(u.fileName, <<".", "s", "v", "g">>)
    THEN ReplaceExtension(u.fileName)
    ELSE u.fileName

\* tags.join(',')
RECURSIVE JoinWith(_, _)
JoinWith(parts, sep) ==
    IF parts = <<>> THEN <<>>
    ELSE IF Len(parts) = 1 THEN parts[1]
    ELSE parts[1] \o sep \o JoinWith(Tail(parts), sep)

Delimiter(u) == <<"--", u.boundary>>
Disposition(name) == <<"Content-Disposition: form-data; name=", Quote>> \o name \o <<Quote>>

uploadFolder(u) == IF u.folder # <<>> THEN u.folder ELSE u.uploadFolder

\* the lines pushed on formFields, in the order of the pushes
formFields(u) ==
    << Delimiter(u), Disposition(<<"fileName">>), <<>>, finalFileName(u) >>
    \o (IF uploadFolder(u) # <<>>
        THEN << Delimiter(u), Disposition(<<"folder">>), <<>>, uploadFolder(u) >>
        ELSE <<>>)
    \o (IF u.tags # <<>>
        THEN << Delimiter(u), Disposition(<<"tags">>), <<>>, JoinWith(u.tags, <<",">>) >>
        ELSE <<>>)
    \o << Delimiter(u),
          Disposition(<<"file">>) \o <<"; filename=", Quote>> \o finalFileName(u) \o <<Quote>>,
          <<"Content-Type: application/octet-stream">>,
          <<>> >>

formHeader(u) == JoinWith(formFields(u), CRLF) \o CRLF
formFooter(u) == CRLF \o <<"--", u.boundary, "--">> \o CRLF

\* new TextEncoder().encode: UTF-8
Utf8(sym) == IF sym = "e-acute" THEN <<"xC3", "xA9">> ELSE <<sym>>

RECURSIVE encode(_)
encode(text) == IF text = <<>> THEN <<>> ELSE Utf8(Head(text)) \o encode(Tail(text))

\* new Uint8Array(n), and Uint8Array.prototype.set(bytes, offset)
Zeroes(n) == [i \in 1..n |-> "x00"]
SetAt(buffer, bytes, offset) ==
    [i \in 1..Len(buffer) |->
        IF i > offset /\ i <= offset + Len(bytes) THEN bytes[i - offset] ELSE buffer[i]]

combinedBuffer_FileAtZero(headerBytes, fileBytes, footerBytes) ==
    LET totalLength == Len(headerBytes) + Len(fileBytes) + Len(footerBytes)
        b0 == Zeroes(totalLength)
        b1 == SetAt(b0, headerBytes, 0)
        b2 == SetAt(b1, fileBytes, 0)
    IN SetAt(b2, footerBytes, Len(headerBytes) + Len(fileBytes))

combinedBuffer(headerBytes, fileBytes, footerBytes) ==
    LET totalLength == Len(headerBytes) + Len(fileBytes) + Len(footerBytes)
        b0 == Zeroes(totalLength)
        b1 == SetAt(b0, headerBytes, 0)
        b2 == SetAt(b1, fileBytes, Len(headerBytes))
    IN SetAt(b2, footerBytes, Len(headerBytes) + Len(fileBytes))

\* uploadFile from its entry to its await of requestUrl, or to the throw before it
uploadFile_EnabledNotChecked(u) ==
    IF u.privateKey = <<>>
    THEN [u EXCEPT !.pc = "thrown", !.error = [kind |-> "noPrivateKey"]]
    ELSE LET headerBytes == encode(formHeader(u))
             footerBytes == encode(formFooter(u))
         IN [u EXCEPT !.pc = "request",
                      !.headerBytes = headerBytes,
                      !.footerBytes = footerBytes,
                      !.body = combinedBuffer(headerBytes, u.fileBuffer, footerBytes),
                      !.requests = @ + 1]

uploadFile(u) ==
    IF ~u.enabled
    THEN [u EXCEPT !.pc = "thrown", !.error = [kind |-> "notEnabled"]]
    ELSE IF u.privateKey = <<>>
    THEN [u EXCEPT !.pc = "thrown", !.error = [kind |-> "noPrivateKey"]]
    ELSE LET headerBytes == encode(formHeader(u))
             footerBytes == encode(formFooter(u))
         IN [u EXCEPT !.pc = "request",
                      !.headerBytes = headerBytes,
                      !.footerBytes = footerBytes,
                      !.body = combinedBuffer(headerBytes, u.fileBuffer, footerBytes),
                      !.requests = @ + 1]

UpCall ==
    /\ up.pc = "in"
    /\ up' = uploadFile(up)
    /\ UNCHANGED <<hostVars, batchVars, scanVars, convVars, obsVars, cfVars, gen, rw, cls, fp>>

\* the statuses the CDN answers with, and the text of its answer
HttpStatuses == {200, 201, 204, 403, 500}
ResponseText == <<"r">>

\* requestUrl resolves with a response of that status: the CDN has stored the file
\* when the status is one of success
UpResponse(status) ==
    /\ up.pc = "request"
    /\ LET stored == IF status \in 200..299 THEN up.stored + 1 ELSE up.stored
       IN up' = IF status # 200
                THEN [up EXCEPT !.pc = "thrown", !.status = status, !.stored = stored,
                                !.error = [kind |-> "status", status |-> status,
                                           text |-> ResponseText]]
                ELSE [up EXCEPT !.pc = "returned", !.status = status, !.stored = stored,
                                !.result = UrlOf(1)]
    /\ UNCHANGED <<hostVars, batchVars, scanVars, convVars, obsVars, cfVars, gen, rw, cls, fp>>

\* requestUrl rejects (no network, the host gives up): the catch block rethrows
UpReject ==
    /\ up.pc = "request"
    /\ up' = [up EXCEPT !.pc = "thrown", !.error = [kind |-> "transport"]]
    /\ UNCHANGED <<hostVars, batchVars, scanVars, convVars, obsVars, cfVars, gen, rw, cls, fp>>

----------------------------------------------------------------------------
(* CurrentFileModal: image generation *)

\* settings.imageSizes as explored: two of the three sizes the plugin ships
imageSizes ==
    << [id |-> "banner", yamlKey |-> <<"banner_image">>],
       [id |-> "portrait", yamlKey |-> <<"portrait_image">>] >>
SizeIds == {imageSizes[k].id : k \in 1..Len(imageSizes)}

\* the settings the modal reads, the fields of the modal, the locals of a suspended
\* handleGenerate (sizesToGenerate, the index of the size being generated), and
\* what the runs did: the generation requests of the current run per size, the
\* Notices shown, the runs started
NoGen ==
    [pc |-> "none",
     retries |-> 0, recraftApiKey |-> FALSE, imagePromptKey |-> <<>>,
     imagePrompt |-> <<>>, selectedSizes |-> {}, writeToFrontmatter |-> TRUE,
     isGenerating |-> FALSE,
     sizesToGenerate |-> <<>>, i |-> 0,
     requests |-> [id \in SizeIds |-> 0], notices |-> <<>>, runs |-> 0]

\* the values of settings.retries, settings.recraftApiKey (set or not) and
\* settings.imagePromptKey explored; the settings are fixed before the modal opens
\* and nothing reads these three before it, so they are chosen when it opens
RetriesValues == {0, 3}
PromptKeys == {<<"image_prompt">>, <<"title">>}
Prompts == {<<" ">>, <<"p">>}

\* !prompt.trim()
IsBlank(v) == \A k \in 1..Len(v) : v[k] = " "

\* utils/yamlFrontmatter updateFileFrontmatter: the note with its leading block
\* replaced by the formatted map (a block is added to a note that has none)
updateFileFrontmatter(content, formatted) ==
    Dashes \o <<"\n">> \o formatted \o Dashes
    \o (IF StripFrontmatter(content) # content THEN StripFrontmatter(content)
        ELSE <<"\n">> \o content)

\* (variant: the map written holds the one key only, the note is not read)
WithFrontmatterKey_NotRead(content, key, value) ==
    updateFileFrontmatter(content, formatFrontmatter(FmSet(<<>>, key, value)))

\* updateFrontmatter and updateImagePathInFrontmatter: read, set one key, write
WithFrontmatterKey(content, key, value) ==
    updateFileFrontmatter(content, formatFrontmatter(FmSet(extractFrontmatter(content), key, value)))

\* getImagePath: the output folder, the size and the timestamp of the generation
getImagePath(id, timestamp) ==
    <<"assets", "/", "generated-image", "_", id, "_", timestamp, ".", "p", "n", "g">>

\* the command opens the modal on the active note: constructor, onOpen up to its await
OpenGenerate ==
    /\ ui = "none"
    /\ currentFile \in DOMAIN docs
    /\ ui' = "generate"
    /\ \E retries \in RetriesValues, key \in BOOLEAN, promptKey \in PromptKeys :
          gen' = [NoGen EXCEPT !.pc = "load", !.retries = retries,
                               !.recraftApiKey = key, !.imagePromptKey = promptKey]
    /\ UNCHANGED <<docs, files, settings, envBudget, uiBudget>>
    /\ UNCHANGED <<batchVars, scanVars, convVars, obsVars, cfVars, pureVars>>

\* vault.read of loadExistingPrompt resolves (or rejects); the modal is rendered
loadExistingPrompt ==
    /\ gen.pc = "load"
    /\ LET found == IF currentFile \in DOMAIN docs
                    THEN FmGet(extractFrontmatter(docs[currentFile]), gen.imagePromptKey)
                    ELSE <<>>
       IN gen' = [gen EXCEPT !.pc = "idle",
                             !.imagePrompt = IF found # <<>> THEN found ELSE @]
    /\ UNCHANGED <<hostVars, batchVars, scanVars, convVars, obsVars, cfVars, pureVars>>

\* the user types in the prompt field
PromptInput(value) ==
    /\ ui = "generate" /\ uiBudget > 0
    /\ gen.pc # "load"
    /\ value # gen.imagePrompt
    /\ uiBudget' = uiBudget - 1
    /\ gen' = [gen EXCEPT !.imagePrompt = value]
    /\ UNCHANGED <<docs, files, settings, envBudget, ui>>
    /\ UNCHANGED <<batchVars, scanVars, convVars, obsVars, cfVars, pureVars>>

\* the user flips the toggle of a size
ToggleSize(id) ==
    /\ ui = "generate" /\ uiBudget > 0
    /\ gen.pc # "load"
    /\ uiBudget' = uiBudget - 1
    /\ gen' = [gen EXCEPT !.selectedSizes = IF id \in @ THEN @ \ {id} ELSE @ \cup {id}]
    /\ UNCHANGED <<docs, files, settings, envBudget, ui>>
    /\ UNCHANGED <<batchVars, scanVars, convVars, obsVars, cfVars, pureVars>>

\* the user flips "Write prompt to frontmatter"
ToggleWriteToFrontmatter ==
    /\ ui = "generate" /\ uiBudget > 0
    /\ gen.pc # "load"
    /\ uiBudget' = uiBudget - 1
    /\ gen' = [gen EXCEPT !.writeToFrontmatter = ~@]
    /\ UNCHANGED <<docs, files, settings, envBudget, ui>>
    /\ UNCHANGED <<batchVars, scanVars, convVars, obsVars, cfVars, pureVars>>

GenNotice(kind, id) == [kind |-> kind, size |-> id]

\* the loop of handleGenerate from size i up to its next await, or to its end:
\* generateImage throws before any request when no API key is set, the catch block
\* of the item reports it and the loop goes on; after the last size the modal closes
RECURSIVE GenLoop(_, _)
GenLoop(g, i) ==
    IF i > Len(g.sizesToGenerate)
    THEN [g EXCEPT !.pc = "done", !.isGenerating = FALSE,
                   !.notices = Append(@, GenNotice("completed", ""))]
    ELSE LET id == g.sizesToGenerate[i].id
         IN IF ~g.recraftApiKey
            THEN GenLoop([g EXCEPT !.notices = Append(@, GenNotice("failed", id))], i + 1)
            ELSE [g EXCEPT !.pc = "request", !.i = i, !.requests[id] = @ + 1]

\* (variant: a failed generation request is issued again while retries allow it)
GenItemFailed_Retrying(g) ==
    LET id == g.sizesToGenerate[g.i].id
    IN IF g.pc = "request" /\ g.requests[id] <= g.retries
       THEN [g EXCEPT !.requests[id] = @ + 1]
       ELSE GenLoop([g EXCEPT !.notices = Append(@, GenNotice("failed", id))], g.i + 1)

\* (variant: the failure of a size ends the whole run)
GenItemFailed_Aborting(g) ==
    [g EXCEPT !.pc = "idle", !.isGenerating = FALSE,
              !.notices = Append(@, GenNotice("failed", g.sizesToGenerate[g.i].id))]

\* the catch block of an item: a Notice, then the next size
GenItemFailed(g) ==
    GenLoop([g EXCEPT !.notices = Append(@, GenNotice("failed", g.sizesToGenerate[g.i].id))],
            g.i + 1)

\* what an action that resumes handleGenerate leaves behind: after the last size
\* this.close() has run
GenResume(g) ==
    /\ gen' = g
    /\ ui' = IF g.pc = "done" THEN "closed" ELSE ui

\* the locals of handleGenerate once its validation has passed
GenStarted ==
    LET Chosen(size) == size.id \in gen.selectedSizes
    IN [gen EXCEPT !.isGenerating = TRUE, !.runs = @ + 1,
                   !.requests = [id \in SizeIds |-> 0],
                   !.sizesToGenerate = SelectSeq(imageSizes, Chosen)]

\* the Generate Images button
handleGenerate ==
    /\ ui = "generate" /\ uiBudget > 0
    /\ gen.pc # "load"
    /\ gen.isGenerating \/ gen.runs < MaxRuns
    /\ uiBudget' = uiBudget - 1
    /\ IF gen.isGenerating
       THEN UNCHANGED <<gen, ui>>
       ELSE IF IsBlank(gen.imagePrompt)
       THEN /\ gen' = [gen EXCEPT !.notices = Append(@, GenNotice("enterPrompt", ""))]
            /\ UNCHANGED ui
       ELSE IF gen.selectedSizes = {}
       THEN /\ gen' = [gen EXCEPT !.notices = Append(@, GenNotice("selectSize", ""))]
            /\ UNCHANGED ui
       ELSE IF gen.writeToFrontmatter
       THEN /\ gen' = [GenStarted EXCEPT !.pc = "fm"]
            /\ UNCHANGED ui
       ELSE GenResume(GenLoop(GenStarted, 1))
    /\ UNCHANGED <<docs, files, settings, envBudget>>
    /\ UNCHANGED <<batchVars, scanVars, convVars, obsVars, cfVars, pureVars>>

\* updateFrontmatter: its read and its write resolve, the loop starts
GenFrontmatterOk ==
    /\ gen.pc = "fm"
    /\ currentFile \in DOMAIN docs
    /\ docs' = [docs EXCEPT ![currentFile] =
                   WithFrontmatterKey(@, gen.imagePromptKey, gen.imagePrompt)]
    /\ GenResume(GenLoop(gen, 1))
    /\ UNCHANGED <<files, settings, envBudget, uiBudget>>
    /\ UNCHANGED <<batchVars, scanVars, convVars, obsVars, cfVars, pureVars>>

\* ... the note is gone: 'Failed to update frontmatter' reaches the outer catch
GenFrontmatterFail ==
    /\ gen.pc = "fm"
    /\ currentFile \notin DOMAIN docs
    /\ gen' = [gen EXCEPT !.pc = "idle", !.isGenerating = FALSE,
                          !.notices = Append(@, GenNotice("error", ""))]
    /\ UNCHANGED <<hostVars, batchVars, scanVars, convVars, obsVars, cfVars, pureVars>>

\* the generation request is answered 200 with the URL of an image: the download
\* request goes out
GenerateOk ==
    /\ gen.pc = "request"
    /\ gen' = [gen EXCEPT !.pc = "download"]
    /\ UNCHANGED <<hostVars, batchVars, scanVars, convVars, obsVars, cfVars, pureVars>>

\* the generation request fails (transport error, another status, no URL in the
\* answer): generateImage throws
GenerateFail ==
    /\ gen.pc = "request"
    /\ GenResume(GenItemFailed(gen))
    /\ UNCHANGED <<docs, files, settings, envBudget, uiBudget>>
    /\ UNCHANGED <<batchVars, scanVars, convVars, obsVars, cfVars, pureVars>>

\* the image is downloaded: saveImage starts
DownloadOk ==
    /\ gen.pc = "download"
    /\ gen' = [gen EXCEPT !.pc = "save"]
    /\ UNCHANGED <<hostVars, batchVars, scanVars, convVars, obsVars, cfVars, pureVars>>

\* the download fails: generateImage throws
DownloadFail ==
    /\ gen.pc = "download"
    /\ GenResume(GenItemFailed(gen))
    /\ UNCHANGED <<docs, files, settings, envBudget, uiBudget>>
    /\ UNCHANGED <<batchVars, scanVars, convVars, obsVars, cfVars, pureVars>>

\* saveImage writes the file, updateImagePathInFrontmatter sets the key of the size
\* (or gives up silently when the note is gone), the success Notice is shown
SaveOk ==
    /\ gen.pc = "save"
    /\ LET size == gen.sizesToGenerate[gen.i]
           imagePath == getImagePath(size.id, UrlIds[gen.runs])
       IN /\ files' = files \cup {imagePath}
          /\ docs' = IF currentFile \in DOMAIN docs
                     THEN [docs EXCEPT ![currentFile] =
                              WithFrontmatterKey(@, size.yamlKey, imagePath)]
                     ELSE docs
          /\ GenResume(GenLoop([gen EXCEPT !.notices = Append(@, GenNotice("generated", size.id))],
                               gen.i + 1))
    /\ UNCHANGED <<settings, envBudget, uiBudget>>
    /\ UNCHANGED <<batchVars, scanVars, convVars, obsVars, cfVars, pureVars>>

\* saveImage throws (the folder or the file cannot be created)
SaveFail ==
    /\ gen.pc = "save"
    /\ GenResume(GenItemFailed(gen))
    /\ UNCHANGED <<docs, files, settings, envBudget, uiBudget>>
    /\ UNCHANGED <<batchVars, scanVars, convVars, obsVars, cfVars, pureVars>>

\* the user closes the modal: onClose empties the content element
GenClose ==
    /\ ui = "generate" /\ uiBudget > 0
    /\ uiBudget' = uiBudget - 1
    /\ ui' = "closed"
    /\ UNCHANGED <<docs, files, settings, envBudget>>
    /\ UNCHANGED <<batchVars, scanVars, convVars, obsVars, cfVars, gen, pureVars>>

----------------------------------------------------------------------------
(* The modal's life cycle and the world around it *)

\* the command opens the batch modal: constructor and onOpen
OpenBatch ==
    /\ ui = "none"
    /\ ui' = "batch"
    /\ currentDirectory' =
          (LET fileDir == dirname(Note1) IN IF fileDir = <<".">> THEN <<>> ELSE fileDir)
    /\ UNCHANGED <<docs, files, settings, envBudget, uiBudget>>
    /\ UNCHANGED <<localImages, isScanning, isConverting, selectAllCheckbox, rows>>
    /\ UNCHANGED <<scanVars, convVars, obsVars>>
    /\ UNCHANGED <<cfVars, gen, pureVars>>

\* the user closes the batch modal
onClose ==
    /\ ui = "batch"
    /\ ui' = "closed"
    /\ isScanning' = FALSE
    /\ isConverting' = FALSE
    /\ closedAt' = IF convPc # "idle" THEN convI ELSE closedAt
    /\ UNCHANGED <<docs, files, settings, envBudget, uiBudget>>
    /\ UNCHANGED <<currentDirectory, localImages, selectAllCheckbox, rows>>
    /\ UNCHANGED <<scanVars, convVars>>
    /\ UNCHANGED <<inflight, uploadLog, writeLog, outcome, notices, runs>>
    /\ UNCHANGED <<cfVars, gen, pureVars>>

\* the user edits a field in the settings tab before starting a flow: the onChange
\* handler assigns the field and saves
SettingTabChange ==
    /\ ui = "none"
    /\ \E field \in {"removeLocalFiles", "privateKey"} :
          settings' = [settings EXCEPT ![field] = ~@]
    /\ UNCHANGED <<docs, files, envBudget, ui, uiBudget>>
    /\ UNCHANGED <<batchVars, scanVars, convVars, obsVars>>
    /\ UNCHANGED <<cfVars, gen, pureVars>>

\* a note is deleted from the vault by something else than the plugin
ExternalDelete(path) ==
    /\ envBudget > 0
    /\ path \in DOMAIN docs
    /\ \/ \E k \in 1..Len(localImages) : localImages[k].filePath = path
       \/ path = currentFile /\ cfTask.pc \in {"readDoc", "upload", "modify"}
       \/ path = currentFile /\ gen.pc \in {"fm", "save"}
    /\ envBudget' = envBudget - 1
    /\ docs' = [q \in DOMAIN docs \ {path} |-> docs[q]]
    /\ UNCHANGED <<files, settings, ui, uiBudget>>
    /\ UNCHANGED <<batchVars, scanVars, convVars, obsVars>>
    /\ UNCHANGED <<cfVars, gen, pureVars>>

----------------------------------------------------------------------------
(* FreepikModal and ImageCacheService *)

MaxSearches == 2      \* searches issued per behaviour

\* thumbnail URLs as the search service hands them out
Thumb1 == <<"https://", "f", "/", "1", ".", "j", "p", "g">>
Thumb4 == <<"https://", "f", "/", "4", ".", "p", "n", "g">>
ThumbRelative == <<"f", "/", "5", ".", "j", "p", "g">>

\* what the search service holds for each term: an image of "cat" comes without a
\* thumbnail, the image of "owl" with a relative one; "dog" shares a thumbnail
\* with "cat"; nothing matches "zzz"
FpTerms == {"cat", "dog", "owl", "zzz"}
FpData(term) ==
    CASE term = "cat" -> << [id |-> 1, thumb |-> Thumb1], [id |-> 2, thumb |-> <<>>] >>
      [] term = "dog" -> << [id |-> 3, thumb |-> Thumb1], [id |-> 4, thumb |-> Thumb4] >>
      [] term = "owl" -> << [id |-> 5, thumb |-> ThumbRelative] >>
      [] OTHER -> <<>>

NoCached == [originalUrl |-> <<>>, localPath |-> <<>>, fileName |-> <<>>, cached |-> FALSE]

\* the fields of the modal (searchQuery, images, cachedImages), what the results
\* container shows (the status line, message or grid put there by call `of`), the
\* performSearch calls, and the service: its cache Map as a set of [key, value]
\* and its cacheImage calls
NoFp ==
    [open |-> FALSE, searchQuery |-> "", images |-> <<>>, cachedImages |-> {},
     shown |-> [kind |-> "none", of |-> 0, term |-> ""],
     calls |-> <<>>, cache |-> {}, cacheCalls |-> <<>>, notices |-> 0]

\* new URL(url) does not throw
isValidUrl(url) == url # <<>> /\ Head(url) \in {"https://", "http://"}

\* pathname.split('.').pop()
LastPiece(s) ==
    LET dots == {k \in 1..Len(s) : s[k] = "."}
    IN IF dots = {} THEN s
       ELSE SubSeq(s, (CHOOSE k \in dots : \A h \in dots : h <= k) + 1, Len(s))

\* simpleHash: a digest of the URL, the same for the same URL (digests that
\* collide are not among the URLs explored)
simpleHash(str) == <<"#">> \o str

\* generateFileName, for a URL of a scheme, a host and a path
generateFileName(url) ==
    LET pathname  == SubSeq(url, 3, Len(url))
        extension == IF LastPiece(pathname) = <<>> THEN <<"j", "p", "g">>
                     ELSE LastPiece(pathname)
    IN <<"freepik_">> \o simpleHash(url) \o <<".">> \o extension

cacheFolder == <<".obsidian/plugins/image-gin/cache">>
CachePath(url) == cacheFolder \o <<"/">> \o generateFileName(url)

MapHas(map, key) == \E e \in map : e.key = key
MapGet(map, key) == (CHOOSE e \in map : e.key = key).value
MapSet(map, key, value) == {e \in map : e.key # key} \cup {[key |-> key, value |-> value]}

\* cacheImage up to its first await: an entry of the cache whose file exists is
\* returned; generateFileName throws on a string that is no URL, outside the try
\* block, and the promise of the call is rejected; else fetch is under way
cacheImage(f, url, grid) ==
    IF MapHas(f.cache, url) /\ MapGet(f.cache, url).localPath \in files
    THEN [grid |-> grid, url |-> url, pc |-> "returned", result |-> MapGet(f.cache, url)]
    ELSE IF ~isValidUrl(url)
    THEN [grid |-> grid, url |-> url, pc |-> "rejected", result |-> NoCached]
    ELSE [grid |-> grid, url |-> url, pc |-> "fetch", result |-> NoCached]

\* the catch block of cacheImage
Uncached(url) ==
    [originalUrl |-> url, localPath |-> url, fileName |-> <<>>, cached |-> FALSE]

CallsOfGrid(f, k) == {c \in 1..Len(f.cacheCalls) : f.cacheCalls[c].grid = k}

\* cacheAndDisplayImages after its await: once every cacheImage call of a grid has
\* returned, the results are stored in cachedImages under the thumbnail URLs and
\* the images are put into the grid
Display(f) ==
    LET Ready(k) == /\ f.calls[k].pc = "caching"
                    /\ \A c \in CallsOfGrid(f, k) : f.cacheCalls[c].pc = "returned"
        ready    == {k \in 1..Len(f.calls) : Ready(k)}
        stored   == {[key |-> f.cacheCalls[c].url, value |-> f.cacheCalls[c].result] :
                        c \in UNION {CallsOfGrid(f, k) : k \in ready}}
    IN [f EXCEPT !.calls = [k \in 1..Len(f.calls) |->
                               IF k \in ready
                               THEN [f.calls[k] EXCEPT !.pc = "done", !.grid = "images"]
                               ELSE f.calls[k]],
                 !.cachedImages = {e \in @ : \A n \in stored : n.key # e.key} \cup stored]

\* what no action of the search modal touches
fpFrame ==
    <<docs, settings, envBudget, ui, uiBudget, batchVars, scanVars, convVars, obsVars,
      cfVars, gen, rw, cls, up>>

\* the modal is opened: onOpen builds the input, the button and the results container
FpOpen ==
    /\ ~fp.open /\ fp.calls = <<>>
    /\ fp' = [fp EXCEPT !.open = TRUE]
    /\ UNCHANGED <<fpFrame, files>>

\* the Search button (or Enter) with a term in the input: performSearch up to its await
performSearch(term) ==
    /\ fp.open
    /\ Len(fp.calls) < MaxSearches
    /\ fp' = [fp EXCEPT !.searchQuery = term,
                        !.shown = [kind |-> "searching", of |-> Len(fp.calls) + 1, term |-> term],
                        !.calls = Append(@, [term |-> term, pc |-> "search",
                                             answer |-> "none", grid |-> "none"])]
    /\ UNCHANGED <<fpFrame, files>>

\* searchImages of call k resolves: this.images is assigned, the container is
\* emptied and refilled, and cacheAndDisplayImages runs up to its await (it is not
\* awaited by performSearch)
SearchOk(k) ==
    /\ k \in 1..Len(fp.calls)
    /\ fp.calls[k].pc = "search"
    /\ LET data  == FpData(fp.calls[k].term)
           begun == [i \in 1..Len(data) |-> cacheImage(fp, data[i].thumb, k)]
           rejected == \E i \in 1..Len(begun) : begun[i].pc = "rejected"
       IN fp' = IF data = <<>>
                THEN [fp EXCEPT !.images = data,
                                !.shown = [kind |-> "noResults", of |-> k, term |-> fp.searchQuery],
                                !.calls[k].pc = "done", !.calls[k].answer = "ok"]
                ELSE Display([fp EXCEPT
                        !.images = data,
                        !.shown = [kind |-> "grid", of |-> k, term |-> fp.calls[k].term],
                        !.cacheCalls = @ \o begun,
                        !.calls[k].answer = "ok",
                        !.calls[k].pc = IF rejected THEN "fallback" ELSE "caching",
                        !.calls[k].grid = IF rejected THEN "failed" ELSE "loading"])
    /\ UNCHANGED <<fpFrame, files>>

\* searchImages of call k rejects: the error message and a Notice
SearchFail(k) ==
    /\ k \in 1..Len(fp.calls)
    /\ fp.calls[k].pc = "search"
    /\ fp' = [fp EXCEPT !.shown = [kind |-> "error", of |-> k, term |-> fp.searchQuery],
                        !.calls[k].pc = "done", !.calls[k].answer = "error",
                        !.notices = @ + 1]
    /\ UNCHANGED <<fpFrame, files>>

\* fetch of a cacheImage call resolves with an ok response and its body is read
FetchOk(c) ==
    /\ c \in 1..Len(fp.cacheCalls)
    /\ fp.cacheCalls[c].pc = "fetch"
    /\ fp' = [fp EXCEPT !.cacheCalls[c].pc = "save"]
    /\ UNCHANGED <<fpFrame, files>>

\* fetch rejects or the response is not ok: the catch block returns the URL uncached
FetchFail(c) ==
    /\ c \in 1..Len(fp.cacheCalls)
    /\ fp.cacheCalls[c].pc = "fetch"
    /\ fp' = Display([fp EXCEPT !.cacheCalls[c].pc = "returned",
                                !.cacheCalls[c].result = Uncached(fp.cacheCalls[c].url)])
    /\ UNCHANGED <<fpFrame, files>>

\* vault.createBinary resolves: the file is new, the entry goes into the cache
SaveCachedOk(c) ==
    /\ c \in 1..Len(fp.cacheCalls)
    /\ fp.cacheCalls[c].pc = "save"
    /\ CachePath(fp.cacheCalls[c].url) \notin files
    /\ LET url == fp.cacheCalls[c].url
           cachedImage == [originalUrl |-> url, localPath |-> CachePath(url),
                           fileName |-> generateFileName(url), cached |-> TRUE]
       IN /\ files' = files \cup {CachePath(url)}
          /\ fp' = Display([fp EXCEPT !.cache = MapSet(@, url, cachedImage),
                                      !.cacheCalls[c].pc = "returned",
                                      !.cacheCalls[c].result = cachedImage])
    /\ UNCHANGED fpFrame

\* vault.createBinary rejects (the file exists already, the disk refuses)
SaveCachedFail(c) ==
    /\ c \in 1..Len(fp.cacheCalls)
    /\ fp.cacheCalls[c].pc = "save"
    /\ fp' = Display([fp EXCEPT !.cacheCalls[c].pc = "returned",
                                !.cacheCalls[c].result = Uncached(fp.cacheCalls[c].url)])
    /\ UNCHANGED <<fpFrame, files>>

\* the timer of the catch block of cacheAndDisplayImages fires:
\* displayImagesWithoutCache
DisplayWithoutCache(k) ==
    /\ k \in 1..Len(fp.calls)
    /\ fp.calls[k].pc = "fallback"
    /\ fp' = [fp EXCEPT !.calls[k].pc = "done", !.calls[k].grid = "uncachedImages"]
    /\ UNCHANGED <<fpFrame, files>>

\* the user closes the modal: onClose empties the content element
FpClose ==
    /\ fp.open
    /\ fp' = [fp EXCEPT !.open = FALSE]
    /\ UNCHANGED <<fpFrame, files>>

----------------------------------------------------------------------------
\* no modal has been opened yet
InitPlugin ==
    /\ envBudget = MaxEnvEvents
    /\ ui = "none"
    /\ uiBudget = MaxUiEvents
    /\ currentDirectory = <<>>
    /\ localImages = <<>>
    /\ isScanning = FALSE
    /\ isConverting = FALSE
    /\ selectAllCheckbox = [checked |-> TRUE, indeterminate |-> FALSE]
    /\ rows = <<>>
    /\ scanPc = [t \in {"ui", "conv"} |-> "idle"]
    /\ scanFiles = [t \in {"ui", "conv"} |-> <<>>]
    /\ scanIdx = [t \in {"ui", "conv"} |-> 0]
    /\ convPc = "idle"
    /\ selectedImages = <<>>
    /\ convI = 0
    /\ successCount = 0
    /\ errorCount = 0
    /\ convUrl = <<>>
    /\ convContent = <<>>
    /\ inflight = {}
    /\ uploadLog = <<>>
    /\ writeLog = <<>>
    /\ outcome = <<>>
    /\ notices = <<>>
    /\ closedAt = 0
    /\ runs = 0
    /\ cfModal = NoModal
    /\ cfTask = NoTask
    /\ cfObs = NoRun

NoRw == [pc |-> "none", text |-> <<>>, ref |-> <<>>, url |-> <<>>, out |-> <<>>, out2 |-> <<>>]

NoCls == [pc |-> "none", path |-> <<>>, imageKit |-> FALSE, local |-> FALSE]

Init ==
    /\ docs \in Vaults
    /\ files \in FileSets
    /\ settings \in [removeLocalFiles : BOOLEAN, privateKey : BOOLEAN,
                      urlEndpoint : {DefaultEndpoint}]
    /\ InitPlugin
    /\ rw = NoRw /\ cls = NoCls /\ up = NoUp /\ gen = NoGen /\ fp = NoFp

Next ==
    \/ SettingTabChange
    \/ OpenBatch
    \/ \E value \in Dirs : DirectoryChange(value)
    \/ handleSearch
    \/ \E t \in {"ui", "conv"} : scanDirectoryForLocalImages(t)
    \/ \E k \in 1..Len(rows) : ToggleImage(k)
    \/ SelectAllChange
    \/ handleConvert
    \/ ReadBinaryDone
    \/ UploadOk
    \/ UploadFail
    \/ ReadDone
    \/ ModifyOk
    \/ ModifyFail
    \/ DeleteOk
    \/ DeleteFail
    \/ onClose
    \/ \E path \in {Note1, Note2} : ExternalDelete(path)
    \/ OpenCurrent
    \/ analyzeCurrentFile
    \/ \E k \in 1..Len(cfModal.imageProperties) : ToggleProperty(k)
    \/ \E k \in 1..Len(cfModal.markdownImagePaths) : ToggleMarkdownImage(k)
    \/ cfHandleConvert
    \/ CfReadDone
    \/ CfUploadOk
    \/ CfUploadFail
    \/ CfModifyOk
    \/ CfModifyFail
    \/ CfClose
    \/ OpenGenerate
    \/ loadExistingPrompt
    \/ \E value \in Prompts : PromptInput(value)
    \/ \E id \in SizeIds : ToggleSize(id)
    \/ ToggleWriteToFrontmatter
    \/ handleGenerate
    \/ GenFrontmatterOk
    \/ GenFrontmatterFail
    \/ GenerateOk
    \/ GenerateFail
    \/ DownloadOk
    \/ DownloadFail
    \/ SaveOk
    \/ SaveFail
    \/ GenClose

Spec == Init /\ [][Next]_vars

----------------------------------------------------------------------------
(* The two rewrites taken alone: a text, an embed found in it by the scan, a URL *)

MaxPieces == 2        \* pieces a text is made of

ImgPlus  == <<"a", "+", ".", "p", "n", "g">>
ImgParen == <<"(", "a", ")", "*", ".", "p", "n", "g">>
ImgAA    == <<"a", "a", ".", "p", "n", "g">>

RwPaths == {ImgA, ImgPlus, ImgParen, ImgB}

\* the pieces: the embeds, embeds that a pattern reading of one of them would
\* also match, and other text
RwPieces ==
    {Embed(q) : q \in RwPaths} \cup
    {Embed(ImgDash), Embed(ImgAA), Embed(<<"a", "a">> \o ImgA), <<"x">>, <<"\n">>, <<"!", "[">>}

RECURSIVE RwTexts(_)
RwTexts(n) ==
    IF n = 0 THEN {<<>>}
    ELSE LET shorter == RwTexts(n - 1)
         IN shorter \cup {t \o q : t \in shorter, q \in RwPieces}

RwUrls == {UrlOf(1), DefaultEndpoint \o <<"/", "a", ".", "p", "n", "g">>}

\* the reference the scan makes of an embed of path q
RefOf(q) == RefsOfMatches(EmbedMatches(Embed(q), 1), Note1, 1)[1]

InitRw ==
    /\ docs = (Note1 :> <<>>)
    /\ files = {}
    /\ settings = [removeLocalFiles |-> FALSE, privateKey |-> TRUE,
                   urlEndpoint |-> DefaultEndpoint]
    /\ InitPlugin
    /\ cls = NoCls /\ up = NoUp /\ gen = NoGen /\ fp = NoFp
    /\ \E text \in RwTexts(MaxPieces), q \in RwPaths, url \in RwUrls :
          rw = [NoRw EXCEPT !.pc = "in", !.text = text, !.ref = RefOf(q), !.url = url]

\* the current-file rewrite of the text, and the same rewrite of its result
RwCurrentFile ==
    /\ rw.pc = "in"
    /\ rw' = [rw EXCEPT !.pc = "all", !.out = RewriteAll(rw.text, rw.ref.fullMatch, rw.url)]
    /\ UNCHANGED <<hostVars, batchVars, scanVars, convVars, obsVars, cfVars, gen, cls, up, fp>>

RwCurrentFileAgain ==
    /\ rw.pc = "all"
    /\ rw' = [rw EXCEPT !.pc = "allTwice", !.out2 = RewriteAll(rw.out, rw.ref.fullMatch, rw.url)]
    /\ UNCHANGED <<hostVars, batchVars, scanVars, convVars, obsVars, cfVars, gen, cls, up, fp>>

\* the batch rewrite of the text, and the same rewrite of its result
RwBatch ==
    /\ rw.pc = "in"
    /\ rw' = [rw EXCEPT !.pc = "first", !.out = RewriteFirst(rw.text, rw.ref, rw.url)]
    /\ UNCHANGED <<hostVars, batchVars, scanVars, convVars, obsVars, cfVars, gen, cls, up, fp>>

RwBatchAgain ==
    /\ rw.pc = "first"
    /\ rw' = [rw EXCEPT !.pc = "firstTwice", !.out2 = RewriteFirst(rw.out, rw.ref, rw.url)]
    /\ UNCHANGED <<hostVars, batchVars, scanVars, convVars, obsVars, cfVars, gen, cls, up, fp>>

NextRw ==
    \/ RwCurrentFile
    \/ RwCurrentFileAgain
    \/ RwBatch
    \/ RwBatchAgain

SpecRw == InitRw /\ [][NextRw]_vars

----------------------------------------------------------------------------
(* The classification of a path taken alone: a path, a configured URL endpoint *)

MaxStems == 2         \* path stems explored

ClsSchemes == {<<>>, <<"http://">>, <<"https://">>}

ClsStemList ==
    << <<"a">>,
       <<"ik.imagekit.io", "/", "id", "/", "a">>,
       <<"cdn", "/", "a">>,
       <<"i", "/", "b">> >>

ClsStems == {ClsStemList[k] : k \in 1..MaxStems}

ClsTails == ImageExtensions \cup {<<>>, <<".", "t", "x", "t">>, <<".", "p", "n", "g", "?", "w">>}

ClsPaths == {sch \o st \o tl : sch \in ClsSchemes, st \in ClsStems, tl \in ClsTails}

\* the endpoint as shipped, a custom domain, and the field left empty
ClsEndpoints == {DefaultEndpoint, <<"https://", "cdn">>, <<>>}

InitCls ==
    /\ docs = (Note1 :> <<>>)
    /\ files = {}
    /\ settings \in [removeLocalFiles : {FALSE}, privateKey : {TRUE}, urlEndpoint : ClsEndpoints]
    /\ InitPlugin
    /\ rw = NoRw /\ up = NoUp /\ gen = NoGen /\ fp = NoFp
    /\ \E path \in ClsPaths : cls = [NoCls EXCEPT !.pc = "in", !.path = path]

\* the two predicates applied to the path
Classify ==
    /\ cls.pc = "in"
    /\ cls' = [cls EXCEPT !.pc = "done",
                          !.imageKit = isImageKitUrl(cls.path),
                          !.local = isLocalImagePath(cls.path)]
    /\ UNCHANGED <<hostVars, batchVars, scanVars, convVars, obsVars, cfVars, gen, rw, up, fp>>

NextCls == Classify

SpecCls == InitCls /\ [][NextCls]_vars

----------------------------------------------------------------------------
(* One call of uploadFile taken alone: settings, arguments, the CDN's answer *)

MaxBytes == 2         \* length of the files uploaded
MaxTags == 2          \* number of tags passed

\* bytes a file can hold: among them those of the line ends and of the dashes
FileByteValues == {"x00", "\r", "-"}
RECURSIVE FileBuffers(_)
FileBuffers(n) ==
    IF n = 0 THEN {<<>>}
    ELSE LET shorter == FileBuffers(n - 1)
         IN shorter \cup {Append(b, x) : b \in {c \in shorter : Len(c) = n - 1},
                                          x \in FileByteValues}

TagList == << <<"t">>, <<"u">>, <<"v">> >>
TagLists == {SubSeq(TagList, 1, n) : n \in 0..MaxTags}

UpFileNames == { <<"a", ".", "p", "n", "g">>, <<"a", ".", "w", "e", "b", "p">>,
                 <<"e-acute", ".", "j", "p", "g">>, <<"a">> }

InitUp ==
    /\ docs = (Note1 :> <<>>)
    /\ files = {}
    /\ settings = [removeLocalFiles |-> FALSE, privateKey |-> TRUE,
                   urlEndpoint |-> DefaultEndpoint]
    /\ InitPlugin
    /\ rw = NoRw /\ cls = NoCls /\ gen = NoGen /\ fp = NoFp
    /\ \E enabled \in BOOLEAN, privateKey \in {<<>>, <<"k">>}, convertToWebp \in BOOLEAN,
          folderSetting \in {<<>>, <<"/", "u">>}, folder \in {<<>>, <<"/", "f">>},
          tags \in TagLists, fileName \in UpFileNames, fileBuffer \in FileBuffers(MaxBytes),
          boundary \in {"b1", "b2"} :
          up = [NoUp EXCEPT !.pc = "in",
                            !.enabled = enabled, !.privateKey = privateKey,
                            !.convertToWebp = convertToWebp, !.uploadFolder = folderSetting,
                            !.folder = folder, !.tags = tags, !.fileName = fileName,
                            !.fileBuffer = fileBuffer, !.boundary = boundary]

NextUp ==
    \/ UpCall
    \/ \E status \in HttpStatuses : UpResponse(status)
    \/ UpReject

SpecUp == InitUp /\ [][NextUp]_vars

----------------------------------------------------------------------------
(* The search modal and its image cache taken alone *)

InitFreepik ==
    /\ docs = (Note1 :> <<>>)
    /\ files = {}
    /\ settings = [removeLocalFiles |-> FALSE, privateKey |-> TRUE,
                   urlEndpoint |-> DefaultEndpoint]
    /\ InitPlugin
    /\ rw = NoRw /\ cls = NoCls /\ up = NoUp /\ gen = NoGen /\ fp = NoFp

NextFreepik ==
    \/ FpOpen
    \/ \E term \in FpTerms : performSearch(term)
    \/ \E k \in 1..MaxSearches : SearchOk(k)
    \/ \E k \in 1..MaxSearches : SearchFail(k)
    \/ \E c \in 1..Len(fp.cacheCalls) : FetchOk(c)
    \/ \E c \in 1..Len(fp.cacheCalls) : FetchFail(c)
    \/ \E c \in 1..Len(fp.cacheCalls) : SaveCachedOk(c)
    \/ \E c \in 1..Len(fp.cacheCalls) : SaveCachedFail(c)
    \/ \E k \in 1..MaxSearches : DisplayWithoutCache(k)
    \/ FpClose

SpecFreepik == InitFreepik /\ [][NextFreepik]_vars

----------------------------------------------------------------------------
(* Properties of the batch conversion *)

N == Len(selectedImages)

\* the loop of the current run has processed its last item
LoopDone == runs > 0 /\ convI > N

Failed(kind) == {i \in 1..N : outcome[i].st = kind}

RECURSIVE Summaries(_)
Summaries(ns) ==
    IF ns = <<>> THEN <<>>
    ELSE (IF Head(ns).kind = "summary" THEN <<Head(ns)>> ELSE <<>>) \o Summaries(Tail(ns))

LastSummary == Summaries(notices)[Len(Summaries(notices))]

OnlyUploadErrors == \A i \in 1..N : outcome[i].st \in {"ok", "uploadError"}

\* C1: when the loop of a batch run over N references has ended and exactly the K
\* references whose upload failed have failed, the summary notice reports N-K
\* successes and K failures, and the note of every failed reference has, at the end
\* of that reference's turn, the text it had when the turn began, its embed
\* included (unless something else deleted the note meanwhile): no write was issued
\* for it.
C1_UploadFailuresCounted ==
    (LoopDone /\ OnlyUploadErrors) =>
        LET K == Cardinality(Failed("uploadError"))
        IN /\ successCount = N - K
           /\ errorCount = K
           /\ LastSummary = Summary(N - K, K)
           /\ \A i \in Failed("uploadError") :
                 /\ outcome[i].after \in {outcome[i].before, NoFile}
                 /\ \A k \in 1..Len(writeLog) : writeLog[k].item # i
                 /\ (Includes(outcome[i].before, selectedImages[i].fullMatch)
                        /\ outcome[i].after # NoFile)
                        => Includes(outcome[i].after, selectedImages[i].fullMatch)

C1_Witness ==
    /\ LoopDone /\ OnlyUploadErrors
    /\ N >= 3
    /\ Cardinality(Failed("uploadError")) >= 1
    /\ Cardinality(Failed("ok")) >= 1
    /\ \E i \in Failed("uploadError") :
          Includes(outcome[i].after, selectedImages[i].fullMatch)

\* C3: the uploads of one batch run are issued one at a time and in list order: at
\* most one request is in flight, it belongs to the item the loop is at, every
\* earlier item has ended, and the requests were issued in increasing item order.
C3_OneUploadAtATime ==
    /\ Cardinality(inflight) <= 1
    /\ \A k \in inflight :
          /\ k = convI
          /\ \A j \in 1..(k - 1) : outcome[j].st \notin {"pending", "started"}
    /\ \A a, b \in 1..Len(uploadLog) : a < b => uploadLog[a] < uploadLog[b]

C3_Witness ==
    /\ Len(uploadLog) >= 2
    /\ inflight = {uploadLog[Len(uploadLog)]}

\* C4: a batch item rewrites the text its note has at that moment (read after the
\* item's own upload completed), so a rewrite made earlier in the run is never lost:
\* the URL written by an item whose embed was in the text it read stays in the note
\* for the rest of the run.
C4_ReadsLatestText ==
    /\ convPc \in {"read", "modify"} => convI \notin inflight /\ convI \in {uploadLog[k] : k \in 1..Len(uploadLog)}
    /\ \A k \in 1..Len(writeLog) :
          LET w   == writeLog[k]
              ref == selectedImages[w.item]
          IN /\ w.read = w.before
             /\ (Includes(w.read, ref.fullMatch) /\ ref.filePath \in DOMAIN docs)
                    => Includes(docs[ref.filePath], w.url)

C4_Witness ==
    /\ LoopDone
    /\ \E a, b \in 1..Len(writeLog) :
          /\ a < b
          /\ selectedImages[writeLog[a].item].filePath = selectedImages[writeLog[b].item].filePath
          /\ outcome[writeLog[a].item].st = "ok" /\ outcome[writeLog[b].item].st = "ok"
          /\ Includes(docs[selectedImages[writeLog[a].item].filePath], writeLog[a].url)
          /\ Includes(docs[selectedImages[writeLog[a].item].filePath], writeLog[b].url)

\* C5 as stated: once the batch modal has been closed during a run, no upload and
\* no write is issued for an item that had not started when it was closed (closedAt
\* is the item the loop was at).
C5_CloseSuppressesLaterItems ==
    closedAt > 0 =>
        /\ \A k \in 1..Len(uploadLog) : uploadLog[k] <= closedAt
        /\ \A k \in 1..Len(writeLog) : writeLog[k].item <= closedAt

\* C7: when the text a batch item read holds the item's embed at least twice, the
\* text it writes differs only at the first occurrence: everything before it and
\* everything after it (the other occurrences included) is kept as it was.
C7_OnlyFirstOccurrence ==
    (convPc = "modify" /\ Count(convContent.read, Item.fullMatch) >= 2) =>
        LET old  == convContent.read
            new  == convContent.write
            m    == Item.fullMatch
            p    == IndexFrom(old, m, 1)
            tail == Len(old) - (p + Len(m)) + 1
        IN /\ SubSeq(new, 1, p - 1) = SubSeq(old, 1, p - 1)
           /\ SubSeq(new, Len(new) - tail + 1, Len(new)) = SubSeq(old, p + Len(m), Len(old))
           /\ Count(new, m) = Count(old, m) - 1
           /\ ~MatchAt(new, p, m)

C7_Witness ==
    /\ convPc = "modify"
    /\ Count(convContent.read, Item.fullMatch) = 2
    /\ Count(convContent.write, Item.fullMatch) = 1

----------------------------------------------------------------------------
(* Properties of the two conversions' error handling *)

Settled(i) == outcome[i].st \notin {"pending", "started"}

\* the loops of the current-file run have ended (the final write may be pending)
CfLoopsDone ==
    /\ cfObs.runs > 0
    /\ cfObs.read # <<>>
    /\ cfTask.pc \in {"modify", "idle"}

CfItems == [k \in 1..Len(cfObs.outcomes) |-> cfObs.outcomes[k].item]
CfCount(ok) == Cardinality({k \in 1..Len(cfObs.outcomes) : (cfObs.outcomes[k].st = "ok") = ok})

\* C2: a failure of one item (no note, no image file, no key, upload error, write
\* error) does not end the loop.  Batch: while the loop is at item i every item
\* before i has ended and the failure count is the number of those that did not
\* succeed; when the loop has ended every selected item has been attempted,
\* successes and failures add up to N, and the runs that have ended have shown one
\* summary each.  Current file: when the two loops have ended over an unchanged
\* selection, every selected item has been attempted, in order, and the two
\* counters add up to their number.
C2_FailuresDoNotAbort ==
    /\ runs > 0 =>
          /\ \A i \in 1..N : i < convI => Settled(i)
          /\ errorCount = Cardinality({i \in 1..N : Settled(i) /\ outcome[i].st # "ok"})
          /\ successCount = Cardinality(Failed("ok"))
          /\ LoopDone => successCount + errorCount = N
          /\ Len(Summaries(notices)) = IF LoopDone THEN runs ELSE runs - 1
    /\ (CfLoopsDone /\ ~cfObs.toggled) =>
          /\ CfItems = cfObs.selected
          /\ cfTask.successCount = CfCount(TRUE)
          /\ cfTask.errorCount = CfCount(FALSE)

C2_Witness ==
    /\ LoopDone
    /\ N >= 3
    /\ \E i, j \in 1..N : i < j /\ outcome[i].st = "writeError" /\ outcome[j].st = "ok"
    /\ \E i, j \in 1..N : i < j /\ outcome[i].st = "noImageFile" /\ outcome[j].st # "pending"

C2_WitnessCurrentFile ==
    /\ CfLoopsDone /\ ~cfObs.toggled
    /\ Len(cfObs.outcomes) >= 2
    /\ cfObs.outcomes[1].st = "uploadError"
    /\ cfObs.outcomes[2].st = "ok"

----------------------------------------------------------------------------
(* Properties of the rewrites *)

\* the text with every occurrence of m (found left to right, none overlapping)
\* replaced by r, symbol for symbol the same elsewhere
RECURSIVE LiteralReplaceAll(_, _, _, _)
LiteralReplaceAll(text, m, r, i) ==
    IF i > Len(text) THEN <<>>
    ELSE IF MatchAt(text, i, m) THEN r \o LiteralReplaceAll(text, m, r, i + Len(m))
    ELSE <<text[i]>> \o LiteralReplaceAll(text, m, r, i + 1)

\* C6: the current-file rewrite of a body replaces every literal occurrence of the
\* embed by `![](url)` and keeps every other symbol; an embed that the match
\* string would match only if it were read as a pattern is left alone.
C6_ReplacesEveryLiteralOccurrence ==
    rw.pc = "all" =>
        rw.out = LiteralReplaceAll(rw.text, rw.ref.fullMatch, CfReplacement(rw.url), 1)

C6_Witness ==
    /\ rw.pc = "all"
    /\ Count(rw.text, rw.ref.fullMatch) = 2
    /\ Count(rw.out, CfReplacement(rw.url)) = 2
    /\ rw.ref.imagePath = ImgParen

\* C8 as stated: a rewrite applied to its own result changes nothing, for either
\* rewrite and every text.
C8_RewriteIdempotent ==
    rw.pc \in {"allTwice", "firstTwice"} => rw.out2 = rw.out

\* C8 amended: the current-file rewrite applied to its own result changes nothing;
\* the batch rewrite applied to its own result changes nothing when the text held
\* the embed at most once, and rewrites the next occurrence otherwise.
C8_IdempotentOnceMatchIsGone ==
    /\ rw.pc = "allTwice" => rw.out2 = rw.out /\ ~Includes(rw.out, rw.ref.fullMatch)
    /\ rw.pc = "firstTwice" =>
          IF Count(rw.text, rw.ref.fullMatch) <= 1
          THEN rw.out2 = rw.out
          ELSE rw.out2 # rw.out /\ Count(rw.out2, rw.ref.fullMatch) = Count(rw.out, rw.ref.fullMatch) - 1

C8_Witness ==
    /\ rw.pc = "allTwice"
    /\ Count(rw.text, rw.ref.fullMatch) = 2
    /\ rw.out2 = rw.out
    /\ rw.out # rw.text

----------------------------------------------------------------------------
(* Properties of what a conversion writes *)

NamedLink(name, url) == <<"!", "[">> \o name \o <<"]", "(">> \o url \o <<")">>

\* C9 as stated: a converted embed becomes `![<name>](<url>)`, with the file name
\* of the image and the URL of the upload, in the text a batch item writes and in
\* the body the current-file conversion builds.
C9_EmbedBecomesNamedLink ==
    /\ (convPc = "modify" /\ Includes(convContent.read, Item.fullMatch)) =>
          Includes(convContent.write, NamedLink(basename(Item.imagePath), convUrl))
    /\ \A k \in 1..Len(cfObs.outcomes) :
          LET o == cfObs.outcomes[k]
          IN (o.phase = "md" /\ o.st = "ok") =>
                Includes(cfTask.markdownContent, NamedLink(basename(o.item), o.url))

\* the outcomes of the frontmatter property key in the current run
CfOutcomesOf(key, ok) ==
    {k \in 1..Len(cfObs.outcomes) :
        /\ cfObs.outcomes[k].phase = "fm"
        /\ cfObs.outcomes[k].item = key
        /\ (cfObs.outcomes[k].st = "ok") = ok}

CfKeys == {cfModal.imageProperties[k].key : k \in 1..Len(cfModal.imageProperties)}

\* C10: in the text the current-file conversion writes, a frontmatter image
\* property whose upload succeeded holds the URL that upload returned, and one
\* whose conversion only failed holds the value it had in the text that was read;
\* the note holds that text once the write is done.
C10_FrontmatterGetsUrl ==
    cfTask.newContent # <<>> =>
        /\ \A key \in CfKeys :
              LET oks   == CfOutcomesOf(key, TRUE)
                  fails == CfOutcomesOf(key, FALSE)
                  now   == FmGet(extractFrontmatter(cfTask.newContent), key)
              IN /\ oks # {} =>
                        now = cfObs.outcomes[CHOOSE k \in oks : \A h \in oks : h <= k].url
                 /\ (oks = {} /\ fails # {}) =>
                        now = FmGet(extractFrontmatter(cfObs.read), key)
        /\ (cfObs.written /\ currentFile \in DOMAIN docs) => docs[currentFile] = cfTask.newContent

C10_Witness ==
    /\ cfObs.written
    /\ currentFile \in DOMAIN docs
    /\ \E a, b \in CfKeys :
          /\ CfOutcomesOf(a, TRUE) # {}
          /\ CfOutcomesOf(b, TRUE) = {}
          /\ \E k \in CfOutcomesOf(b, FALSE) : cfObs.outcomes[k].st = "uploadError"
          /\ Includes(docs[currentFile], b \o <<":", " ">> \o FmGet(extractFrontmatter(cfObs.read), b))
          /\ Includes(docs[currentFile], a \o <<":", " ", "https://">>)

----------------------------------------------------------------------------
(* Properties of the classification *)

HasScheme(p) == StartsWith(p, <<"http://">>) \/ StartsWith(p, <<"https://">>)

EndsWithImageExtension(p) == \E ext \in ImageExtensions : EndsWith(p, ext)

\* C11 as stated: a path that ends in one of the six image extensions and does not
\* start with http:// or https:// is classified as a local image, whatever the
\* configured URL endpoint is.
C11_ExtensionMeansLocal ==
    (cls.pc = "done" /\ EndsWithImageExtension(cls.path) /\ ~HasScheme(cls.path)) => cls.local

\* the path is a URL on the CDN: it has a scheme, followed by the CDN's host, or
\* it begins with the configured endpoint
OnCdn(p) ==
    \/ StartsWith(p, <<"http://", "ik.imagekit.io">>)
    \/ StartsWith(p, <<"https://", "ik.imagekit.io">>)
    \/ HasScheme(p) /\ StartsWith(p, settings.urlEndpoint)

\* C12: a path with a scheme that is on the CDN's host or begins with the
\* configured endpoint is recognised as a CDN URL and is not classified as a
\* local image.
C12_CdnUrlIsNotLocal ==
    (cls.pc = "done" /\ OnCdn(cls.path)) => cls.imageKit /\ ~cls.local

C12_Witness ==
    /\ cls.pc = "done"
    /\ cls.path = <<"https://", "ik.imagekit.io", "/", "id", "/", "a", ".", "p", "n", "g">>
    /\ settings.urlEndpoint = <<"https://", "cdn">>
    /\ cls.imageKit /\ ~cls.local

----------------------------------------------------------------------------
(* Properties of the batch scan *)

\* C13 as stated: every reference in the scan result has a path that classifies
\* as a local image: no URL scheme, not on the CDN, and an extension from the
\* allow-list.
C13_ScanKeepsOnlyLocalImages ==
    \A k \in 1..Len(localImages) :
        /\ ~isRemoteUrl(localImages[k].imagePath)
        /\ ~OnCdn(localImages[k].imagePath)
        /\ EndsWithImageExtension(localImages[k].imagePath)

\* the number of places of a text where a local embed begins
LocalEmbedCount(text) ==
    Cardinality({i \in 1..Len(text) :
                    /\ MatchAt(text, i, <<"!", "[", "[">>)
                    /\ ~isRemoteUrl(SubSeq(text, i + 3, Len(text)))})

Scanners == {"ui", "conv"}

\* a step in which scan t takes in the note it was reading
ScanTakesIn(t) ==
    /\ scanPc[t] = "read"
    /\ scanIdx'[t] # scanIdx[t] \/ scanPc'[t] # "read"

C14_Step ==
    /\ \A t \in Scanners :
          ScanTakesIn(t) =>
             LET f == scanFiles[t][scanIdx[t]]
                 n == IF f \in DOMAIN docs THEN LocalEmbedCount(docs[f]) ELSE 0
             IN /\ Len(localImages') = Len(localImages) + n
                /\ SubSeq(localImages', 1, Len(localImages)) = localImages
                /\ \A k \in (Len(localImages) + 1)..Len(localImages') :
                      localImages'[k].filePath = f
    /\ \A t \in Scanners :
          (scanPc[t] # "read" /\ scanPc'[t] = "read") => localImages' = <<>>

\* C14: the scan does not deduplicate and a new scan starts from an empty result:
\* taking in a note adds one reference per local embed occurrence of that note to
\* the result, whatever is already listed, and a scan that starts empties the
\* result of the previous one.
C14_EveryOccurrenceListed == [][C14_Step]_vars

\* a second scan is under way: the rows of the first one (three references to the
\* same image, from two notes) are still shown, the result was emptied and holds
\* the two references found on two lines of the first note
C14_Witness ==
    /\ ui = "batch"
    /\ scanPc["ui"] = "read" /\ scanIdx["ui"] = 2
    /\ Len(rows) = 3
    /\ Len(localImages) = 2
    /\ localImages[1].imagePath = localImages[2].imagePath
    /\ localImages[1].filePath = localImages[2].filePath
    /\ localImages[1].lineNumber # localImages[2].lineNumber

----------------------------------------------------------------------------
(* Properties of the batch selection *)

\* C15 as stated: whenever the modal shows a scan result and no scan is under way,
\* the Select All checkbox agrees with the selection: checked when every
\* reference is selected, unchecked when none is, indeterminate otherwise.
C15_IndicatorAgreesWithSelection ==
    (ui = "batch" /\ ~isScanning /\ (\A t \in Scanners : scanPc[t] = "idle")
        /\ localImages # <<>>)
    => selectAllCheckbox = updateSelectAllCheckbox(localImages)

----------------------------------------------------------------------------
(* Properties of the removal of local files *)

\* the image files every explored vault starts with, and those of them that are gone
AlwaysThere == {f \in UNION FileSets : \A fs \in FileSets : f \in fs}
Removed == AlwaysThere \ files

\* the document that carries the rewritten reference to f has been written
Persisted(f) ==
    \/ \E k \in 1..Len(writeLog) :
          /\ writeLog[k].item \in 1..Len(selectedImages)
          /\ selectedImages[writeLog[k].item].imagePath = f
    \/ cfObs.written

\* C16 as stated: a local image file is gone only if removeLocalFiles is set and
\* the note carrying its rewritten reference has been written (which follows the
\* success of its upload).
C16_DeletedOnlyAfterPersist ==
    \A f \in Removed : settings.removeLocalFiles /\ Persisted(f)

----------------------------------------------------------------------------
(* Properties of uploadFile *)

NoCredentials == ~up.enabled \/ up.privateKey = <<>>

\* C17: without credentials (ImageKit disabled, or no private key) uploadFile
\* throws, no request is ever issued and nothing is stored on the CDN.
C17_NoCredentialsNoRequest ==
    (NoCredentials /\ up.pc \notin {"none", "in"})
    => /\ up.pc = "thrown"
       /\ up.error.kind \in {"notEnabled", "noPrivateKey"}
       /\ up.requests = 0
       /\ up.stored = 0
       /\ up.body = <<>>

C17_Witness ==
    /\ up.pc = "thrown"
    /\ ~up.enabled /\ up.privateKey # <<>>
    /\ up.error.kind = "notEnabled"

\* C18 as stated: every answer with a status from 200 to 299 makes uploadFile
\* return a result, every other status makes it throw an error that carries the
\* status and the text of the answer, and a request that fails makes it throw.
C18_ResultForEverySuccessStatus ==
    /\ (up.pc \in {"returned", "thrown"} /\ up.status \in 200..299) => up.pc = "returned"
    /\ (up.pc \in {"returned", "thrown"} /\ up.status # 0 /\ up.status \notin 200..299)
          => /\ up.pc = "thrown"
             /\ up.error = [kind |-> "status", status |-> up.status, text |-> ResponseText]
    /\ (up.requests > 0 /\ up.error.kind = "transport") => up.pc = "thrown"

\* the names of the form fields of a header, in the order they appear in it
FieldNames(bytes) ==
    LET at == {i \in 1..Len(bytes) : bytes[i] = "Content-Disposition: form-data; name="}
        Nth[k \in 0..Cardinality(at)] ==
            IF k = 0 THEN 0 ELSE CHOOSE i \in at : i > Nth[k - 1] /\ \A j \in at : j > Nth[k - 1] => i <= j
    IN [k \in 1..Cardinality(at) |-> bytes[Nth[k] + 2]]

ExpectedFields ==
    <<"fileName">>
    \o (IF up.folder # <<>> \/ up.uploadFolder # <<>> THEN <<"folder">> ELSE <<>>)
    \o (IF up.tags # <<>> THEN <<"tags">> ELSE <<>>)
    \o <<"file">>

\* C19: the body that goes out is the header bytes, the file bytes and the footer
\* bytes in that order: the lengths add up, the file bytes are found unchanged at
\* offset |header|, and the header names the fields in the order fileName, folder
\* (when there is one), tags (when there are some), file.
C19_BodyIsHeaderFileFooter ==
    up.requests > 0
    => /\ up.body = up.headerBytes \o up.fileBuffer \o up.footerBytes
       /\ Len(up.body) = Len(up.headerBytes) + Len(up.fileBuffer) + Len(up.footerBytes)
       /\ SubSeq(up.body, Len(up.headerBytes) + 1, Len(up.headerBytes) + Len(up.fileBuffer))
             = up.fileBuffer
       /\ FieldNames(up.body) = ExpectedFields
       /\ FieldNames(up.headerBytes) = ExpectedFields

\* a file whose bytes look like a line end and a dash, a folder from the settings,
\* two tags, a name outside ASCII
C19_Witness ==
    /\ up.pc = "request"
    /\ up.fileBuffer = <<"\r", "-">>
    /\ up.folder = <<>> /\ up.uploadFolder # <<>>
    /\ Len(up.tags) = 2
    /\ up.fileName[1] = "e-acute"
    /\ FieldNames(up.body) = <<"fileName", "folder", "tags", "file">>

----------------------------------------------------------------------------
(* Properties of the requests a run issues *)

\* the upload requests of the current-file run so far, and the items it has taken up
CfUploadsOfRun == cfObs.uploads - cfObs.uploadsBefore
CfItemsTaken == Len(cfObs.outcomes) + (IF cfTask.pc = "upload" THEN 1 ELSE 0)

\* the sizes the generation run was started for
GenSizesOfRun == {gen.sizesToGenerate[k].id : k \in 1..Len(gen.sizesToGenerate)}

\* C20: no request is repeated by the plugin.  In a batch run every upload request
\* is for a selected reference and no reference has two; in a current-file run
\* over an unchanged selection no item is taken up twice and there are no more
\* upload requests than items taken up; in a generation run every size the run was
\* started for has at most one generation request and no other size has any,
\* whatever the outcome of the requests and whatever settings.retries is.
C20_NoAutomaticRetry ==
    /\ \A i \in 1..Len(uploadLog) :
          /\ uploadLog[i] \in 1..Len(selectedImages)
          /\ \A j \in 1..Len(uploadLog) : i # j => uploadLog[i] # uploadLog[j]
    /\ CfUploadsOfRun <= CfItemsTaken
    /\ ~cfObs.toggled =>
          \A i, j \in 1..Len(cfObs.outcomes) :
              i # j => <<cfObs.outcomes[i].phase, cfObs.outcomes[i].item>>
                          # <<cfObs.outcomes[j].phase, cfObs.outcomes[j].item>>
    /\ \A id \in SizeIds :
          gen.requests[id] <= (IF id \in GenSizesOfRun THEN 1 ELSE 0)

\* a generation run for two sizes with retries set to 3 has ended: the request
\* for the first size failed, each size had its one request
C20_Witness ==
    /\ gen.pc = "done"
    /\ gen.retries = 3
    /\ Len(gen.sizesToGenerate) = 2
    /\ \A id \in SizeIds : gen.requests[id] = 1
    /\ \E k \in 1..Len(gen.notices) :
          gen.notices[k] = GenNotice("failed", gen.sizesToGenerate[1].id)
    /\ \E k \in 1..Len(gen.notices) :
          gen.notices[k] = GenNotice("generated", gen.sizesToGenerate[2].id)

\* a batch run of two references has ended: the upload of the first one failed,
\* each reference had its one request
C20_WitnessBatch ==
    /\ LoopDone
    /\ N = 2
    /\ uploadLog = <<1, 2>>
    /\ outcome[1].st = "uploadError"

----------------------------------------------------------------------------
(* Properties of the notices of a conversion *)

\* the per-item error notices shown so far by the batch modal for item i
BatchItemNotices(i) ==
    {k \in 1..Len(notices) : notices[k].kind = "itemFailed" /\ notices[k].item = i}

C21_CurrentFilePart ==
    \A k \in 1..Len(cfObs.outcomes) :
        cfObs.outcomes[k].st # "ok" =>
            \E n \in 1..Len(cfObs.notices) :
                cfObs.notices[n] = CfItemNotice(cfObs.outcomes[k].phase, cfObs.outcomes[k].item)

\* C21 as stated: every item of a conversion that has failed has had an error
\* notice of its own shown to the user, in the batch conversion and in the
\* current-file conversion.
C21_FailedItemsAreNotified ==
    /\ \A i \in 1..N : (Settled(i) /\ outcome[i].st # "ok") => BatchItemNotices(i) # {}
    /\ C21_CurrentFilePart

----------------------------------------------------------------------------
(* Properties of the generation flow *)

GenNoticed(kind, id) == \E k \in 1..Len(gen.notices) : gen.notices[k] = GenNotice(kind, id)

\* handleGenerate is suspended at one of its awaits
GenRunning == gen.pc \in {"fm", "request", "download", "save"}

\* the value of a frontmatter key of the note the modal was opened on
GenKeyValue(key) == FmGet(extractFrontmatter(docs[currentFile]), key)

\* the paths a generated image of a size can have been saved under
GenPathsOf(id) == {getImagePath(id, UrlIds[r]) : r \in 1..MaxRuns + 1}

----------------------------------------------------------------------------
(* Properties of the frontmatter keys of the current file *)

AllowList == {IMAGE_PROPERTIES[k] : k \in 1..Len(IMAGE_PROPERTIES)}

\* the keys whose value differs between two frontmatter maps
ChangedKeys(old, new) ==
    {old[k].key : k \in {q \in 1..Len(old) : FmGet(new, old[q].key) # old[q].value}}
    \cup {new[k].key : k \in {q \in 1..Len(new) : FmGet(old, new[q].key) # new[q].value}}

\* C24: the analysis of the current file lists only keys of the allow-list whose
\* value is a string, and a conversion that has written the note has changed the
\* value of no key but keys of the allow-list whose value was a string.
C24_OnlyAllowListedStrings ==
    /\ \A k \in 1..Len(cfModal.imageProperties) :
          /\ cfModal.imageProperties[k].key \in AllowList
          /\ cfModal.imageProperties[k].value # <<>>
          /\ IsString(cfModal.imageProperties[k].value)
    /\ \A k \in 1..Len(cfModal.selectedProperties) :
          cfModal.selectedProperties[k] \in AllowList
    /\ (cfObs.written /\ currentFile \in DOMAIN docs) =>
          \A key \in ChangedKeys(extractFrontmatter(cfObs.read),
                                 extractFrontmatter(docs[currentFile])) :
              /\ key \in AllowList
              /\ IsString(FmGet(extractFrontmatter(cfObs.read), key))

\* the note with a title, two image keys holding a path and one holding a list has
\* been analysed and converted: the banner now holds a URL, the title and the
\* list are as they were
C24_Witness ==
    /\ cfObs.written /\ currentFile \in DOMAIN docs
    /\ Len(cfModal.imageProperties) = 2
    /\ FmGet(extractFrontmatter(cfObs.read), <<"thumbnail">>) = ImgList
    /\ FmGet(extractFrontmatter(docs[currentFile]), <<"thumbnail">>) = ImgList
    /\ FmGet(extractFrontmatter(docs[currentFile]), <<"title">>) = <<"t">>
    /\ ChangedKeys(extractFrontmatter(cfObs.read), extractFrontmatter(docs[currentFile]))
          = {<<"banner_image">>}

----------------------------------------------------------------------------
(* Properties of the settings *)

\* C25: a step that changes the settings is a step of the settings tab; no step
\* of a scan, a conversion or a generation changes a field of the settings.
C25_SettingsWrittenByTabOnly == [][settings' = settings \/ SettingTabChange]_vars

\* a batch conversion that built its service and read the settings has uploaded,
\* written and deleted a file, and a current-file conversion has written the note
C25_Witness ==
    \/ LoopDone /\ successCount > 0 /\ settings.removeLocalFiles /\ Removed # {}
    \/ cfObs.written /\ settings.removeLocalFiles

----------------------------------------------------------------------------
(* Properties of the runs of a modal *)

\* handleConvert of the current-file modal is suspended at one of its awaits
CfRunning == cfTask.pc \in {"readDoc", "upload", "modify"}

C26_Flags ==
    /\ (convPc # "idle" /\ ui = "batch") => isConverting
    /\ convPc = "idle" => ~isConverting
    /\ cfModal.isConverting <=> CfRunning

C26_RunStarts ==
    /\ runs' # runs => (convPc = "idle" /\ ~isConverting)
    /\ cfObs'.runs # cfObs.runs => (~CfRunning /\ ~cfModal.isConverting)
    /\ (isConverting /\ ui = "batch" /\ ui' = "batch" /\ uiBudget' # uiBudget) =>
          (selectedImages' = selectedImages /\ convI' = convI /\ convPc' = convPc)
    /\ (/\ cfModal.isConverting /\ ui = "current" /\ ui' = "current" /\ uiBudget' # uiBudget
        /\ cfModal'.selectedProperties = cfModal.selectedProperties
        /\ cfModal'.selectedMarkdownImages = cfModal.selectedMarkdownImages) =>
          (cfTask' = cfTask /\ [cfObs' EXCEPT !.toggled = cfObs.toggled] = cfObs)

\* C26: at most one conversion run of a modal is active.  While the modal is open
\* and a run is suspended isConverting is true, and it is false once the run has
\* ended; a run starts only when none is active; a click that arrives while
\* isConverting is true changes neither the items of the run nor the point it has
\* reached (in the current-file modal: a click that leaves the selection as it is).
C26_OneRunAtATime == []C26_Flags /\ [][C26_RunStarts]_vars

\* the current-file modal is open, its one run over one item is suspended, and the
\* user's third click has been made after the run started without changing the
\* selection: it was a click on Convert
C26_Witness ==
    /\ ui = "current" /\ CfRunning /\ cfModal.isConverting
    /\ cfObs.runs = 1 /\ Len(cfObs.selected) = 1 /\ ~cfObs.toggled
    /\ uiBudget = MaxUiEvents - 3


\* a batch run has been started and is not suspended any more
BatchRunEnded == runs > 0 /\ convPc = "idle"

C27_Items ==
    /\ runs > 0 => Len(outcome) = N
    /\ \A i \in 1..N : i < convI => Settled(i)
    /\ BatchRunEnded => \A i \in 1..N : Settled(i)
    /\ \A k \in 1..Len(uploadLog) :
          /\ uploadLog[k] \in 1..N
          /\ \A h \in 1..Len(uploadLog) : k < h => uploadLog[k] < uploadLog[h]

C27_Steps ==
    /\ selectedImages' # selectedImages =>
          /\ convPc = "idle" /\ runs' = runs + 1
          /\ selectedImages' = FilterSelected(localImages)
    /\ (convPc # "idle" /\ uiBudget' # uiBudget) =>
          (selectedImages' = selectedImages /\ convI' = convI /\ outcome' = outcome)

\* C27: the references of a batch run are those selected when Convert was clicked,
\* in list order.  The list of the run changes only when a run starts, and is then
\* the selected references of the result list; a click during the run changes
\* neither the list, nor the item the run is at, nor what has been done; every
\* item before the current one has been dealt with, uploads go in list order, and
\* when the run has ended every item of the list has been dealt with.
C27_RunItemsFixedAtStart == []C27_Items /\ [][C27_Steps]_vars

\* a run over two references has ended with both dealt with, although the user
\* unticked one of them while the run was under way
C27_Witness ==
    /\ BatchRunEnded /\ runs = 1 /\ N = 2
    /\ \A i \in 1..N : Settled(i)
    /\ successCount = 0
    /\ Len(localImages) = 2 /\ Len(FilterSelected(localImages)) = 1
    /\ uiBudget = MaxUiEvents - 3

----------------------------------------------------------------------------
(* Properties of the references left by a batch run *)

\* the items of the run whose note still shows the local embed of a file that is gone
Dangling ==
    {i \in 1..N : /\ selectedImages[i].imagePath \in Removed
                  /\ selectedImages[i].filePath \in DOMAIN docs
                  /\ Includes(docs[selectedImages[i].filePath], selectedImages[i].fullMatch)}

\* C28 as stated: with removeLocalFiles set, when a batch run has ended no note of
\* the run still holds a local embed whose file the run has deleted.
C28_NoDanglingReference ==
    (BatchRunEnded /\ settings.removeLocalFiles) => Dangling = {}

----------------------------------------------------------------------------
(* Properties of the image cache and of the search modal *)

\* C29 as stated: no call of cacheImage is rejected, whatever the URL, so no
\* cacheImages call fails as a whole; a call that has returned after a failed
\* download or save has handed back the URL itself with cached = false; the cache
\* holds only entries with cached = true, each under its own originalUrl.
C29_CacheImageNeverRejects ==
    /\ \A c \in 1..Len(fp.cacheCalls) :
          /\ fp.cacheCalls[c].pc # "rejected"
          /\ fp.cacheCalls[c].pc = "returned" =>
                /\ fp.cacheCalls[c].result.originalUrl = fp.cacheCalls[c].url
                /\ ~fp.cacheCalls[c].result.cached =>
                      fp.cacheCalls[c].result.localPath = fp.cacheCalls[c].url
    /\ \A k \in 1..Len(fp.calls) : fp.calls[k].pc # "fallback"
    /\ \A e \in fp.cache : e.value.cached /\ e.value.originalUrl = e.key

\* the part of C29 about the entries of the cache and the results of the calls
\* that returned
C29_ReturnedAndStored ==
    /\ \A c \in 1..Len(fp.cacheCalls) :
          fp.cacheCalls[c].pc = "returned" =>
              /\ fp.cacheCalls[c].result.originalUrl = fp.cacheCalls[c].url
              /\ ~fp.cacheCalls[c].result.cached =>
                    fp.cacheCalls[c].result.localPath = fp.cacheCalls[c].url
    /\ \A e \in fp.cache : e.value.cached /\ e.value.originalUrl = e.key

\* the search issued last has been answered
LastAnswered ==
    /\ fp.calls # <<>>
    /\ fp.calls[Len(fp.calls)].answer # "none"

\* C30 as stated: once the search issued last has been answered, what the results
\* container shows was put there by that search, and the image list of the modal
\* is the list of its answer; the answer of an earlier search that arrives later
\* replaces neither.
C30_ResultsOfLatestSearch ==
    LastAnswered =>
        /\ fp.shown.of = Len(fp.calls)
        /\ fp.calls[Len(fp.calls)].answer = "ok" =>
               fp.images = FpData(fp.calls[Len(fp.calls)].term)

====
